---------------------------- MODULE Spec2Model ----------------------------
(***************************************************************************)
(* Model of the tool-calling orchestration loop of fi-cli / ag-cli:        *)
(* Agent.Run (src/internal/agent/prompts.go) together with the client and  *)
(* tool interfaces it drives.  A run is one execution of Agent.Run; the    *)
(* model cuts it at the blocking calls it makes (client.Create,            *)
(* client.Stream, tool.Execute), whose results are the environment's       *)
(* choice.                                                                 *)
(***************************************************************************)
EXTENDS Integers, Sequences, FiniteSets, TLC

(***************************************************************************)
(* Bounds of the model.                                                    *)
(***************************************************************************)
\* largest step budget cfg.MaxSteps explored
MaxStepsBound == 2
\* largest number of tool calls in one model response
MaxCalls == 2
\* largest number of tool calls the model requests in one run
MaxIssued == 4

(***************************************************************************)
(* Text.  A Go string is modelled as the sequence of its characters.       *)
(***************************************************************************)
IsSpace(c) == c \in {" ", "\t", "\n"}

UpperLetters ==
    <<"A", "B", "C", "D", "E", "F", "G", "H", "I", "J", "K", "L", "M",
      "N", "O", "P", "Q", "R", "S", "T", "U", "V", "W", "X", "Y", "Z">>
LowerLetters ==
    <<"a", "b", "c", "d", "e", "f", "g", "h", "i", "j", "k", "l", "m",
      "n", "o", "p", "q", "r", "s", "t", "u", "v", "w", "x", "y", "z">>

\* the lower-case letter of each upper-case letter
LowerOf ==
    [c \in {UpperLetters[i] : i \in 1..26} |->
        LowerLetters[CHOOSE i \in 1..26 : UpperLetters[i] = c]]

\* unicode.ToLower on the ASCII letters
ToLowerChar(c) == IF c \in DOMAIN LowerOf THEN LowerOf[c] ELSE c

\* strings.ToLower
ToLower(s) == [i \in 1..Len(s) |-> ToLowerChar(s[i])]

\* strings.Contains (the text is evaluated once, as the value t)
Contains(s, sub) ==
    \E t \in {s} :
        \E i \in 0..(Len(t) - Len(sub)) : SubSeq(t, i + 1, i + Len(sub)) = sub

\* strings.TrimSpace: drop the leading and the trailing white space (the
\* text is evaluated once, as the value t)
TrimSpace(s) ==
    LET trimmed[t \in {s}] ==
            LET idx == {i \in 1..Len(t) : ~IsSpace(t[i])}
            IN  IF idx = {} THEN <<>>
                ELSE LET lo == CHOOSE i \in idx : \A j \in idx : i <= j
                         hi == CHOOSE i \in idx : \A j \in idx : j <= i
                     IN  SubSeq(t, lo, hi)
    IN  trimmed[s]

\* strings.Builder: the concatenation of the deltas written to it
RECURSIVE Concat(_)
Concat(ds) == IF ds = <<>> THEN <<>> ELSE Head(ds) \o Concat(Tail(ds))

MaxStepsPhrase == <<"m", "a", "x", " ", "s", "t", "e", "p", "s">>
MaxStepsPrefix ==
    <<"M", "a", "x", " ", "s", "t", "e", "p", "s", " ",
      "r", "e", "a", "c", "h", "e", "d", ".", " ">>
MaxStepsDefault ==
    <<"M", "a", "x", " ", "s", "t", "e", "p", "s", " ",
      "r", "e", "a", "c", "h", "e", "d", ";", " ",
      "u", "n", "a", "b", "l", "e", " ", "t", "o", " ",
      "c", "o", "m", "p", "l", "e", "t", "e", ".">>

\* Response.Content values the model may return for a response without tool calls
Contents ==
    { <<>>,
      <<"D", "o", "n", "e", ".">>,
      <<" ", "D", "o", "n", "e", ".", "\n">> }

\* delta sequences client.Stream may deliver to onDelta
StreamDeltas ==
    { <<>>,
      << <<" ">> >>,
      << <<"o", "k">>, <<"\n">> >>,
      << <<"M", "A", "X", " ">>, <<"S", "T", "E", "P", "S">> >> }

(***************************************************************************)
(* Tools.                                                                  *)
(***************************************************************************)
\* Registry.tools as built in newRootCmd: grep always, shell when allowed
Registry == {"grep", "shell"}

\* tool names the model may put in a tool call
RequestedNames == {"grep", "frobnicate"}

\* Registry.Get
Get(name) == name \in Registry

\* JSON keys of a successful tool's Result.Payload
ResultPayload(name) ==
    IF name = "grep" THEN {"matches", "truncated", "duration_ms"}
    ELSE {"stdout", "stderr", "exit_code", "duration_ms", "truncated"}

(***************************************************************************)
(* Messages.                                                               *)
(***************************************************************************)
Message(role, content, payload, calls, id) ==
    [role |-> role, content |-> content, payload |-> payload,
     tool_calls |-> calls, tool_call_id |-> id]

SystemMessage(content) == Message("system", content, {}, <<>>, 0)
DeveloperMessage(content) == Message("developer", content, {}, <<>>, 0)
UserMessage(content) == Message("user", content, {}, <<>>, 0)
AssistantMessage(calls) == Message("assistant", "", {}, calls, 0)
ToolMessage(payload, id) == Message("tool", "json", payload, <<>>, id)


(***************************************************************************)
(* Planning.                                                               *)
(***************************************************************************)
\* strings.Split(text, "\n")
RECURSIVE Split(_)
Split(s) ==
    LET nl == {i \in 1..Len(s) : s[i] = "\n"}
    IN  IF nl = {} THEN <<s>>
        ELSE LET k == CHOOSE i \in nl : \A j \in nl : i <= j
             IN  <<SubSeq(s, 1, k - 1)>> \o Split(SubSeq(s, k + 1, Len(s)))

\* strings.TrimLeft(line, "-*")
TrimLeft(s) ==
    LET keep == {i \in 1..Len(s) : s[i] \notin {"-", "*"}}
    IN  IF keep = {} THEN <<>>
        ELSE SubSeq(s, CHOOSE i \in keep : \A j \in keep : i <= j, Len(s))

\* the plan generatePlan returns when the planning request fails
FallbackPlan ==
    << <<"R", "e", "v", "i", "e", "w", " ", "r", "e", "p", "o", "s",
         "i", "t", "o", "r", "y", " ", "c", "o", "n", "t", "e", "x", "t">>,
       <<"R", "u", "n", " ", "f", "o", "c", "u", "s", "e", "d", " ",
         "s", "e", "a", "r", "c", "h", "e", "s">>,
       <<"S", "u", "m", "m", "a", "r", "i", "z", "e", " ", "e", "v",
         "i", "d", "e", "n", "c", "e", " ", "w", "i", "t", "h", " ",
         "c", "i", "t", "a", "t", "i", "o", "n", "s">> >>

\* the items parsePlan appends to a plan of fewer than 3 items
PaddingPlan ==
    << <<"R", "e", "v", "i", "e", "w", " ", "r", "e", "p", "o", "s",
         "i", "t", "o", "r", "y", " ", "c", "o", "n", "t", "e", "x", "t">>,
       <<"R", "u", "n", " ", "t", "a", "r", "g", "e", "t", "e", "d", " ",
         "t", "o", "o", "l", " ", "c", "a", "l", "l", "s">>,
       <<"P", "r", "o", "d", "u", "c", "e", " ", "c", "i", "t", "e",
         "d", " ", "a", "n", "s", "w", "e", "r">> >>

\* cap on the lines parsePlan keeps
PlanCap == 8
\* a plan shorter than this is padded
PlanMin == 3

RECURSIVE PlanLines(_, _)
PlanLines(lines, acc) ==
    IF lines = <<>> THEN acc
    ELSE LET line == TrimSpace(TrimLeft(TrimSpace(Head(lines))))
         IN  IF line = <<>> THEN PlanLines(Tail(lines), acc)
             ELSE IF Len(acc) < PlanCap
                  THEN PlanLines(Tail(lines), Append(acc, line))
                  ELSE PlanLines(Tail(lines), acc)

parsePlan(text) ==
    LET kept == PlanLines(Split(text), <<>>)
    IN  IF Len(kept) < PlanMin THEN kept \o PaddingPlan ELSE kept

\* Response.Content values the model may return to the planning request
PlanTexts ==
    { <<"-", " ", "R", "e", "v", "i", "e", "w", "\n", "*", " ", "g",
        "r", "e", "p", "\n", "\n", "S", "u", "m", "m", "a", "r", "i",
        "z", "e">>,
      <<"-", " ", "a", "\n", " ", "-", " ", "b">>,
      <<"\n", "-", "\n">> }

(***************************************************************************)
(* Regular expressions of the regexp package, as they match on a text.     *)
(***************************************************************************)
Digits == {"0", "1", "2", "3", "4", "5", "6", "7", "8", "9"}

Letters == {UpperLetters[i] : i \in 1..26} \cup {LowerLetters[i] : i \in 1..26}

IsLetter(c) == c \in Letters

\* the class \w
IsWordChar(c) == IsLetter(c) \/ c \in Digits \/ c = "_"

\* the class \s
IsReSpace(c) == c \in {" ", "\t", "\n", "\r", "\f"}

\* a literal at position i of the text
HasAt(s, i, lit) ==
    /\ i >= 1
    /\ i + Len(lit) - 1 <= Len(s)
    /\ SubSeq(s, i, i + Len(lit) - 1) = lit

\* a lower-case literal at position i of the text under (?i)
HasAtFold(s, i, lit) ==
    /\ i >= 1
    /\ i + Len(lit) - 1 <= Len(s)
    /\ \A j \in 1..Len(lit) : ToLowerChar(s[i + j - 1]) = lit[j]

\* \b in front of position i: a word character on exactly one side
Boundary(s, i) ==
    (i - 1 \in 1..Len(s) /\ IsWordChar(s[i - 1]))
        # (i \in 1..Len(s) /\ IsWordChar(s[i]))

\* the position after the longest run of \s that starts at i
RECURSIVE SkipSpace(_, _)
SkipSpace(s, i) ==
    IF i <= Len(s) /\ IsReSpace(s[i]) THEN SkipSpace(s, i + 1) ELSE i

\* (?i)\bword\b
MatchWord(s, word) ==
    \E i \in 1..Len(s) :
        /\ HasAtFold(s, i, word)
        /\ Boundary(s, i)
        /\ Boundary(s, i + Len(word))

\* (?i)\bkill\s+-9\b
MatchKill9(s) ==
    \E i \in 1..Len(s) :
        /\ HasAtFold(s, i, <<"k", "i", "l", "l">>)
        /\ Boundary(s, i)
        /\ LET j == SkipSpace(s, i + 4)
           IN  /\ j > i + 4
               /\ HasAt(s, j, <<"-", "9">>)
               /\ Boundary(s, j + 2)

\* (?i):\(\)\{
MatchForkBomb(s) == \E i \in 1..Len(s) : HasAt(s, i, <<":", "(", ")", "{">>)

\* (?i)chmod\s+-R\s+777\s+/
MatchChmod777(s) ==
    \E i \in 1..Len(s) :
        /\ HasAtFold(s, i, <<"c", "h", "m", "o", "d">>)
        /\ LET j == SkipSpace(s, i + 5)
           IN  /\ j > i + 5
               /\ HasAtFold(s, j, <<"-", "r">>)
               /\ LET k == SkipSpace(s, j + 2)
                  IN  /\ k > j + 2
                      /\ HasAt(s, k, <<"7", "7", "7">>)
                      /\ LET m == SkipSpace(s, k + 3)
                         IN  m > k + 3 /\ HasAt(s, m, <<"/">>)

\* the directories of the redirection pattern, in lower case
SystemDirs ==
    { <<"/", "e", "t", "c">>, <<"/", "b", "i", "n">>, <<"/", "u", "s", "r">>, <<"/", "v", "a", "r">>, <<"/", "l", "i", "b">>, <<"/", "s", "b", "i", "n">>, <<"/", "s", "y", "s", "t", "e", "m">>,
      <<"/", "l", "i", "b", "r", "a", "r", "y">> }

\* (?i)(>|>>)[\s]*(/etc|/bin|/usr|/var|/lib|/sbin|/System|/Library)
MatchRedirect(s) ==
    \E i \in 1..Len(s) :
        /\ s[i] = ">"
        /\ \E d \in SystemDirs : HasAtFold(s, SkipSpace(s, i + 1), d)

(***************************************************************************)
(* util.RedactSecrets: four patterns, each replaced from left to right.    *)
(***************************************************************************)
\* the alternatives of keyValuePattern, in lower case
KeyWords ==
    << <<"a", "p", "i", "_", "k", "e", "y">>, <<"a", "p", "i", "k", "e", "y">>, <<"s", "e", "c", "r", "e", "t">>, <<"t", "o", "k", "e", "n">>, <<"p", "a", "s", "s", "w", "o", "r", "d">>,
       <<"a", "c", "c", "e", "s", "s", "_", "k", "e", "y">>, <<"p", "r", "i", "v", "a", "t", "e", "_", "k", "e", "y">> >>

\* the class [^\s"']
IsValueChar(c) == ~IsReSpace(c) /\ c \notin {"\"", "'"}

\* the class [a-zA-Z0-9_-]
IsJwtChar(c) == IsLetter(c) \/ c \in Digits \/ c \in {"_", "-"}

\* the class [a-z0-9] under (?i)
IsAlnum(c) == IsLetter(c) \/ c \in Digits

\* the class [A-Z ] under (?i)
IsLabelChar(c) == IsLetter(c) \/ c = " "

\* the position after the longest run of a class that starts at i
RECURSIVE SkipClass(_, _, _)
SkipClass(class, s, i) ==
    IF i <= Len(s)
       /\ CASE class = "value" -> IsValueChar(s[i])
            [] class = "jwt" -> IsJwtChar(s[i])
            [] class = "alnum" -> IsAlnum(s[i])
            [] class = "label" -> IsLabelChar(s[i])
    THEN SkipClass(class, s, i + 1)
    ELSE i

\* keyValuePattern at position i: the position after the match, 0 for none
KeyValueEnd(s, i) ==
    IF \E k \in 1..Len(KeyWords) : HasAtFold(s, i, KeyWords[k])
    THEN LET k == CHOOSE k \in 1..Len(KeyWords) : HasAtFold(s, i, KeyWords[k])
             a == SkipSpace(s, i + Len(KeyWords[k]))
         IN  IF a <= Len(s) /\ s[a] \in {":", "="}
             THEN LET b == SkipSpace(s, a + 1)
                      e == SkipClass("value", s, b)
                  IN  IF e > b THEN e ELSE 0
             ELSE 0
    ELSE 0

\* $1 of keyValuePattern: the keyword as the text spells it
KeyValueGroup(s, i) ==
    LET k == CHOOSE k \in 1..Len(KeyWords) : HasAtFold(s, i, KeyWords[k])
    IN  SubSeq(s, i, i + Len(KeyWords[k]) - 1)

\* "-----BEGIN [A-Z ]*PRIVATE KEY-----" (or END) at position i: the position
\* after it, 0 for none
PemLineEnd(s, i, opening) ==
    IF HasAtFold(s, i, opening)
    THEN LET p == i + Len(opening)
             r == SkipClass("label", s, p)
             q == r - Len(<<"p", "r", "i", "v", "a", "t", "e", " ", "k", "e", "y">>)
         IN  IF q >= p /\ HasAtFold(s, q, <<"p", "r", "i", "v", "a", "t", "e", " ", "k", "e", "y", "-", "-", "-", "-", "-">>)
             THEN q + Len(<<"p", "r", "i", "v", "a", "t", "e", " ", "k", "e", "y", "-", "-", "-", "-", "-">>)
             ELSE 0
    ELSE 0

\* privateKeyBlock at position i: the opening line, then up to the first
\* closing line
PrivateKeyEnd(s, i) ==
    LET h == PemLineEnd(s, i, <<"-", "-", "-", "-", "-", "b", "e", "g", "i", "n", " ">>)
        closings == {j \in h..Len(s) : PemLineEnd(s, j, <<"-", "-", "-", "-", "-", "e", "n", "d", " ">>) > 0}
    IN  IF h = 0 \/ closings = {} THEN 0
        ELSE PemLineEnd(s, CHOOSE j \in closings : \A x \in closings : j <= x,
                        <<"-", "-", "-", "-", "-", "e", "n", "d", " ">>)

\* jwtPattern at position i
JwtEnd(s, i) ==
    IF HasAt(s, i, <<"e", "y", "J">>)
    THEN LET a == SkipClass("jwt", s, i + 3)
         IN  IF a > i + 3 /\ a <= Len(s) /\ s[a] = "."
             THEN LET b == SkipClass("jwt", s, a + 1)
                  IN  IF b > a + 1
                      THEN IF b <= Len(s) /\ s[b] = "."
                           THEN SkipClass("jwt", s, b + 1)
                           ELSE b
                      ELSE 0
             ELSE 0
    ELSE 0

\* shortest run of [a-z0-9] skPattern asks for
SkMinLen == 20

\* skPattern at position i
SkEnd(s, i) ==
    IF HasAtFold(s, i, <<"s", "k", "-">>)
    THEN LET e == SkipClass("alnum", s, i + 3)
         IN  IF e - (i + 3) >= SkMinLen THEN e ELSE 0
    ELSE 0

MatchEnd(pattern, s, i) ==
    CASE pattern = "keyValue" -> KeyValueEnd(s, i)
      [] pattern = "privateKey" -> PrivateKeyEnd(s, i)
      [] pattern = "jwt" -> JwtEnd(s, i)
      [] pattern = "sk" -> SkEnd(s, i)

\* variant: a blank follows the replacement of keyValuePattern
Replacement_Padded(pattern, s, i) ==
    CASE pattern = "keyValue" -> KeyValueGroup(s, i) \o <<"=", "[", "R", "E", "D", "A", "C", "T", "E", "D", "]", " ">>
      [] pattern = "privateKey" -> <<"[", "R", "E", "D", "A", "C", "T", "E", "D", " ", "P", "R", "I", "V", "A", "T", "E", " ", "K", "E", "Y", "]">>
      [] pattern = "jwt" -> <<"[", "R", "E", "D", "A", "C", "T", "E", "D", " ", "J", "W", "T", "]">>
      [] pattern = "sk" -> <<"[", "R", "E", "D", "A", "C", "T", "E", "D", " ", "K", "E", "Y", "]">>

\* the expansion of the template of each ReplaceAllString
Replacement(pattern, s, i) ==
    CASE pattern = "keyValue" -> KeyValueGroup(s, i) \o <<"=", "[", "R", "E", "D", "A", "C", "T", "E", "D", "]">>
      [] pattern = "privateKey" -> <<"[", "R", "E", "D", "A", "C", "T", "E", "D", " ", "P", "R", "I", "V", "A", "T", "E", " ", "K", "E", "Y", "]">>
      [] pattern = "jwt" -> <<"[", "R", "E", "D", "A", "C", "T", "E", "D", " ", "J", "W", "T", "]">>
      [] pattern = "sk" -> <<"[", "R", "E", "D", "A", "C", "T", "E", "D", " ", "K", "E", "Y", "]">>

\* Regexp.ReplaceAllString: the leftmost matches, none overlapping
RECURSIVE ReplaceAll(_, _, _)
ReplaceAll(pattern, s, i) ==
    IF i > Len(s) THEN <<>>
    ELSE IF MatchEnd(pattern, s, i) > 0
    THEN Replacement(pattern, s, i)
             \o ReplaceAll(pattern, s, MatchEnd(pattern, s, i))
    ELSE <<s[i]>> \o ReplaceAll(pattern, s, i + 1)

\* the patterns in turn, each on the result of the one before
RECURSIVE RedactWith(_, _)
RedactWith(patterns, text) ==
    IF patterns = <<>> THEN text
    ELSE RedactWith(Tail(patterns), ReplaceAll(Head(patterns), text, 1))

\* util.RedactSecrets
RedactSecrets(input) ==
    RedactWith(<<"keyValue", "privateKey", "jwt", "sk">>, input)

\* util.TruncateBytes: the text and whether it was cut
TruncateBytes(input, maxBytes) ==
    IF maxBytes <= 0 \/ Len(input) <= maxBytes
    THEN [text |-> input, did |-> FALSE]
    ELSE [text |-> SubSeq(input, 1, maxBytes), did |-> TRUE]

\* len(strings.Join(lines, "\n"))
RECURSIVE JoinedLen(_)
JoinedLen(lines) ==
    IF lines = <<>> THEN 0
    ELSE IF Len(lines) = 1 THEN Len(lines[1])
    ELSE Len(lines[1]) + 1 + JoinedLen(Tail(lines))

\* variant: the loop keeps the line it starts at and nothing else, unflagged
truncateLoop_FirstLine(lines, i, maxLines, maxBytes, st) ==
    IF i > Len(lines) THEN st
    ELSE [out |-> <<lines[i]>>, truncated |-> FALSE,
          byteCount |-> Len(lines[i])]

\* the range loop of TruncateLinesAndBytes from line i on
RECURSIVE truncateLoop(_, _, _, _, _)
truncateLoop(lines, i, maxLines, maxBytes, st) ==
    IF i > Len(lines) THEN st
    ELSE IF maxLines > 0 /\ Len(st.out) >= maxLines
         THEN [st EXCEPT !.truncated = TRUE]
    ELSE LET lineBytes == Len(lines[i])
             sep == IF Len(st.out) > 0 THEN 1 ELSE 0
         IN  IF maxBytes > 0 /\ st.byteCount + sep + lineBytes > maxBytes
             THEN [st EXCEPT !.truncated = TRUE]
             ELSE truncateLoop(lines, i + 1, maxLines, maxBytes,
                               [out |-> Append(st.out, lines[i]),
                                truncated |-> st.truncated,
                                byteCount |-> st.byteCount + sep + lineBytes])

\* variant: nothing is cut
TruncateLinesAndBytes_Uncut(lines, maxLines, maxBytes) ==
    [out |-> lines, truncated |-> FALSE, byteCount |-> JoinedLen(lines)]

\* util.TruncateLinesAndBytes
TruncateLinesAndBytes(lines, maxLines, maxBytes) ==
    IF maxLines <= 0 /\ maxBytes <= 0
    THEN [out |-> lines, truncated |-> FALSE, byteCount |-> JoinedLen(lines)]
    ELSE truncateLoop(lines, 1, maxLines, maxBytes,
                      [out |-> <<>>, truncated |-> FALSE, byteCount |-> 0])

(***************************************************************************)
(* The shell tool (src/internal/tools/shell.go): its fixed sets, the       *)
(* tokenizer, the allowlist and the working directory.                     *)
(***************************************************************************)
interactive ==
    { <<"v", "i", "m">>, <<"v", "i">>, <<"n", "a", "n", "o">>, <<"l", "e", "s", "s">>, <<"m", "o", "r", "e">>, <<"m", "a", "n">>, <<"t", "o", "p">>, <<"h", "t", "o", "p">>,
      <<"s", "s", "h">>, <<"s", "f", "t", "p">> }

networkTools == { <<"c", "u", "r", "l">>, <<"w", "g", "e", "t">>, <<"s", "s", "h">>, <<"s", "c", "p">>, <<"n", "c">>, <<"n", "e", "t", "c", "a", "t">> }

\* some pattern of destructivePatterns matches the raw command
destructivePatterns(command) ==
    \/ MatchWord(command, <<"r", "m">>)
    \/ MatchWord(command, <<"m", "k", "f", "s">>)
    \/ MatchWord(command, <<"d", "d">>)
    \/ MatchWord(command, <<"s", "h", "u", "t", "d", "o", "w", "n">>)
    \/ MatchWord(command, <<"r", "e", "b", "o", "o", "t">>)
    \/ MatchKill9(command)
    \/ MatchForkBomb(command)
    \/ MatchChmod777(command)
    \/ MatchRedirect(command)

\* the loop of splitCommand over the characters of the input
RECURSIVE splitLoop(_, _)
splitLoop(input, st) ==
    IF input = <<>> THEN st
    ELSE LET r == Head(input)
             rest == Tail(input)
         IN  IF st.escape
             THEN splitLoop(rest, [st EXCEPT !.buf = Append(@, r),
                                             !.escape = FALSE])
             ELSE IF r = "\\" /\ ~st.inSingle
             THEN splitLoop(rest, [st EXCEPT !.escape = TRUE])
             ELSE IF r = "'" /\ ~st.inDouble
             THEN splitLoop(rest, [st EXCEPT !.inSingle = ~@])
             ELSE IF r = "\"" /\ ~st.inSingle
             THEN splitLoop(rest, [st EXCEPT !.inDouble = ~@])
             ELSE IF r \in {" ", "\t", "\n"} /\ ~st.inSingle /\ ~st.inDouble
             THEN IF st.buf # <<>>
                  THEN splitLoop(rest, [st EXCEPT !.args = Append(@, st.buf),
                                                  !.buf = <<>>])
                  ELSE splitLoop(rest, st)
             ELSE splitLoop(rest, [st EXCEPT !.buf = Append(@, r)])

\* variant: an open quote or a dangling escape is not reported
splitCommand_Lenient(input) ==
    LET st == splitLoop(input, [args |-> <<>>, buf |-> <<>>,
                                inSingle |-> FALSE, inDouble |-> FALSE,
                                escape |-> FALSE])
    IN  [err |-> FALSE,
         args |-> IF st.buf # <<>> THEN Append(st.args, st.buf) ELSE st.args]

\* splitCommand: the tokens of a command, or an error
splitCommand(input) ==
    LET st == splitLoop(input, [args |-> <<>>, buf |-> <<>>,
                                inSingle |-> FALSE, inDouble |-> FALSE,
                                escape |-> FALSE])
    IN  IF st.escape \/ st.inSingle \/ st.inDouble
        THEN [err |-> TRUE, args |-> <<>>]
        ELSE [err |-> FALSE,
              args |-> IF st.buf # <<>> THEN Append(st.args, st.buf)
                       ELSE st.args]

\* strings.ToLower on every token
LowerTokens(tokens) == [i \in 1..Len(tokens) |-> ToLower(tokens[i])]

\* normalizeAllowlist: the token sequences of the usable entries
RECURSIVE normalizeAllowlist(_)
normalizeAllowlist(list) ==
    IF list = <<>> THEN <<>>
    ELSE LET trimmed == TrimSpace(Head(list))
             split == splitCommand(trimmed)
         IN  IF trimmed = <<>> \/ split.err \/ split.args = <<>>
             THEN normalizeAllowlist(Tail(list))
             ELSE <<LowerTokens(split.args)>> \o normalizeAllowlist(Tail(list))

\* ShellTool.allowed
allowed(allowlist, cmdParts) ==
    /\ allowlist # <<>>
    /\ cmdParts # <<>>
    /\ \E e \in 1..Len(allowlist) :
          /\ Len(cmdParts) >= Len(allowlist[e])
          /\ \A i \in 1..Len(allowlist[e]) :
                LowerTokens(cmdParts)[i] = allowlist[e][i]

(***************************************************************************)
(* Paths of path/filepath, with "/" as the separator.                      *)
(***************************************************************************)
\* strings.Split(s, sep) for a one-character separator
RECURSIVE SplitOn(_, _)
SplitOn(s, sep) ==
    LET at == {i \in 1..Len(s) : s[i] = sep}
    IN  IF at = {} THEN <<s>>
        ELSE LET k == CHOOSE i \in at : \A j \in at : i <= j
             IN  <<SubSeq(s, 1, k - 1)>> \o SplitOn(SubSeq(s, k + 1, Len(s)), sep)

\* strings.Join(elems, sep)
RECURSIVE JoinWith(_, _)
JoinWith(elems, sep) ==
    IF elems = <<>> THEN <<>>
    ELSE IF Len(elems) = 1 THEN elems[1]
    ELSE elems[1] \o <<sep>> \o JoinWith(Tail(elems), sep)

DotDot == <<".", ".">>

\* filepath.IsAbs
IsAbs(path) == path # <<>> /\ path[1] = "/"

\* the elements Clean keeps: empty and "." elements go, ".." takes the
\* element before it, and is dropped at the root
RECURSIVE CleanElems(_, _, _)
CleanElems(elems, rooted, acc) ==
    IF elems = <<>> THEN acc
    ELSE LET e == Head(elems)
         IN  IF e = <<>> \/ e = <<".">>
             THEN CleanElems(Tail(elems), rooted, acc)
             ELSE IF e = DotDot
             THEN IF acc # <<>> /\ acc[Len(acc)] # DotDot
                  THEN CleanElems(Tail(elems), rooted, SubSeq(acc, 1, Len(acc) - 1))
                  ELSE IF rooted
                  THEN CleanElems(Tail(elems), rooted, acc)
                  ELSE CleanElems(Tail(elems), rooted, Append(acc, e))
             ELSE CleanElems(Tail(elems), rooted, Append(acc, e))

\* the elements of the cleaned path
Elems(path) == CleanElems(SplitOn(path, "/"), IsAbs(path), <<>>)

\* filepath.Clean
Clean(path) ==
    IF IsAbs(path) THEN <<"/">> \o JoinWith(Elems(path), "/")
    ELSE IF Elems(path) = <<>> THEN <<".">>
    ELSE JoinWith(Elems(path), "/")

\* filepath.Join of two non-empty elements
Join(a, b) == Clean(a \o <<"/">> \o b)

\* length of the longest common prefix of two element sequences
RECURSIVE CommonPrefix(_, _)
CommonPrefix(a, b) ==
    IF a = <<>> \/ b = <<>> \/ Head(a) # Head(b) THEN 0
    ELSE 1 + CommonPrefix(Tail(a), Tail(b))

\* filepath.Rel: the path from base to targ, or an error
Rel(basepath, targpath) ==
    LET base == Elems(basepath)
        targ == Elems(targpath)
        k == CommonPrefix(base, targ)
        up == [i \in 1..(Len(base) - k) |-> DotDot]
    IN  IF Clean(targpath) = Clean(basepath)
        THEN [err |-> FALSE, path |-> <<".">>]
        ELSE IF IsAbs(basepath) # IsAbs(targpath)
        THEN [err |-> TRUE, path |-> <<>>]
        ELSE IF k < Len(base) /\ base[k + 1] = DotDot
        THEN [err |-> TRUE, path |-> <<>>]
        ELSE [err |-> FALSE,
              path |-> JoinWith(up \o SubSeq(targ, k + 1, Len(targ)), "/")]

\* strings.HasPrefix
HasPrefix(s, prefix) == HasAt(s, 1, prefix)

\* variant: the directory is taken as resolved, without the check
resolveCwd_Unchecked(repoRoot, cwd) ==
    [err |-> <<>>, dir |-> IF IsAbs(cwd) THEN cwd ELSE Join(repoRoot, cwd)]

\* resolveCwd: the directory of the child, or the error (<<>> for nil)
resolveCwd(repoRoot, cwd) ==
    LET abs == IF IsAbs(cwd) THEN cwd ELSE Join(repoRoot, cwd)
        rel == Rel(repoRoot, abs)
    IN  IF rel.err \/ HasPrefix(rel.path, DotDot)
        THEN [err |-> <<"c", "w", "d", " ", "m", "u", "s", "t", " ", "s", "t", "a", "y", " ", "w", "i", "t", "h", "i", "n", " ", "r", "e", "p", "o", " ", "r", "o", "o", "t">>, dir |-> <<>>]
        ELSE [err |-> <<>>, dir |-> abs]

\* minimalEnv: nil on every platform
minimalEnv == "nil"

(***************************************************************************)
(* State.                                                                  *)
(***************************************************************************)
VARIABLES
    cfg,          \* a.cfg: MaxSteps, JSON, NoPlan
    pc,           \* where Run is: at a blocking call, between two, returned
    cancelled,    \* ctx of the run is done (interrupt or overall deadline)
    plan,         \* plan
    messages,     \* messages
    steps,        \* steps
    response,     \* response of the current step: Content, ToolCalls
    callIdx,      \* position of the range loop over response.ToolCalls
    finalAnswer,  \* finalAnswer while the streaming request is in flight
    result,       \* result: Status, StepsUsed, FinalAnswer, ToolCalls, Events
    retErr,       \* the error Run returns: "nil" until it returns one
    requests,     \* history: every request handed to the client, in order
    executed,     \* history: the calls handed to tool.Execute, and how each ended
    issued,       \* history: number of tool calls the model has requested
    shTool,       \* the ShellTool: allowlist
    shArgs,       \* args of the Execute in flight: Command, Cwd
    shMeta,       \* meta of the Execute in flight: UnsafeShell, RepoRoot, MaxBytes
    environ,      \* os.Environ() of the tool's process, in each of two runs
    shPc,         \* where the shell call is: Execute, cmd.Run, returned, recorded
    shCmd,        \* cmd as exec.CommandContext and the two assignments leave it
    shProc,       \* the child process: its environment, its output, how it ended
    shRet,        \* what Execute returned: the error or the payload
    shRecord,     \* the agent's record of the call and the tool-result message
    mainPc,       \* where the root command is between config.Load and NewRegistry
    mainCfg,      \* cfg of the root command: the flags that decide the tool set
    exaKey,       \* os.Getenv("EXA_API_KEY")
    toolList,     \* toolList
    registry,     \* the names NewRegistry holds a tool for
    callPc,       \* a library function under evaluation: "call", then "returned"
    callArgs,     \* its arguments
    callRet,      \* what it returned
    rnPc,         \* an interactive run seen from its renderer: Run, stream, returned
    rnRun,        \* that run: the branch it ends in, the stream, the answer
    renderer,     \* the StdoutRenderer: its flags and what it has seen
    written,      \* the text written to the renderer's writer
    grTool,       \* the GrepTool: rgPath
    grArgs,       \* args of the grep call: Pattern, Paths, MaxResults
    grMeta,       \* meta of the grep call: RepoRoot, MaxResults, MaxBytes
    wd,           \* the working directory of the tool's process
    grPc,         \* where the grep call is: Execute, cmd.Run, walk, returned
    grSearch,     \* the search: the directories it covers, the lines that match
    grRet         \* what Execute returned: the error or the payload

shellVars == <<shTool, shArgs, shMeta, environ, shPc, shCmd, shProc, shRet,
               shRecord>>

agentVars == <<cfg, pc, cancelled, plan, messages, steps, response, callIdx,
               finalAnswer, result, retErr, requests, executed, issued>>

mainVars == <<mainPc, mainCfg, exaKey, toolList, registry>>

callVars == <<callPc, callArgs, callRet>>

renderVars == <<rnPc, rnRun, renderer, written>>

grepVars == <<grTool, grArgs, grMeta, wd, grPc, grSearch, grRet>>

\* what an action of one part leaves alone: the variables of the other parts
notAgentVars == <<shellVars, mainVars, callVars, renderVars, grepVars>>
notShellVars == <<agentVars, mainVars, callVars, renderVars, grepVars>>
notMainVars == <<agentVars, shellVars, callVars, renderVars, grepVars>>
notCallVars == <<agentVars, shellVars, mainVars, renderVars, grepVars>>
notRenderVars == <<agentVars, shellVars, mainVars, callVars, grepVars>>
notGrepVars == <<agentVars, shellVars, mainVars, callVars, renderVars>>

vars == <<cfg, pc, cancelled, plan, messages, steps, response, callIdx,
          finalAnswer, result, retErr, requests, executed, issued,
          shTool, shArgs, shMeta, environ, shPc, shCmd, shProc, shRet,
          shRecord, mainPc, mainCfg, exaKey, toolList, registry,
          callPc, callArgs, callRet, rnPc, rnRun, renderer, written,
          grTool, grArgs, grMeta, wd, grPc, grSearch, grRet>>

\* the configurations config.Load produces: MaxSteps is positive
Configs ==
    [MaxSteps : 1..MaxStepsBound, JSON : BOOLEAN, NoPlan : BOOLEAN]

NoResponse == [Content |-> <<>>, ToolCalls |-> <<>>]

\* result as Run initialises it
NewRunResult ==
    [Status |-> "failure", StepsUsed |-> 0, FinalAnswer |-> <<>>,
     ToolCalls |-> <<>>, Events |-> <<>>]

\* shellOutput of a call that has not returned one
NoPayload ==
    [Stdout |-> <<>>, Stderr |-> <<>>, ExitCode |-> 0, Truncated |-> FALSE]

\* cmd before exec.CommandContext
NoCmd == [Path |-> <<>>, Args |-> <<>>, Dir |-> <<>>, Env |-> "nil", built |-> FALSE]

\* no child process
NoProc ==
    [state |-> "none", environ |-> <<{}, {}>>, stdout |-> <<>>,
     stderr |-> <<>>, code |-> 0, deadline |-> FALSE]

\* Execute has not returned
NoRet == [returned |-> FALSE, err |-> <<>>, Payload |-> NoPayload]

\* the call is not recorded, no tool-result message
NoRecord ==
    [recorded |-> FALSE, Status |-> "", Output |-> {}, content |-> [error |-> <<>>]]

\* repoRoot as main hands it to Run: absolute and clean
RepoRoot == <<"/", "r", "e", "p", "o">>

\* no shell call in flight
ShellIdle ==
    /\ shTool = [allowlist |-> <<>>]
    /\ shArgs = [Command |-> <<>>, Cwd |-> <<>>]
    /\ shMeta = [UnsafeShell |-> FALSE, RepoRoot |-> RepoRoot, MaxBytes |-> 0]
    /\ environ = <<{}, {}>>
    /\ shPc = "idle"
    /\ shCmd = NoCmd
    /\ shProc = NoProc
    /\ shRet = NoRet
    /\ shRecord = NoRecord

\* the root command has not started
MainIdle ==
    /\ mainPc = "idle"
    /\ mainCfg = [UnsafeShell |-> FALSE, ShellAllowlist |-> <<>>,
                  NoWeb |-> FALSE]
    /\ exaKey = <<>>
    /\ toolList = <<>>
    /\ registry = <<>>

\* no library function under evaluation
CallIdle ==
    /\ callPc = "idle"
    /\ callArgs = <<>>
    /\ callRet = <<>>

\* the StdoutRenderer as NewStdoutRenderer returns it
NewStdoutRenderer(quiet, showHeader) ==
    [quiet |-> quiet, showHeader |-> showHeader,
     printedFinalHeader |-> FALSE, sawDelta |-> FALSE,
     endedWithNewline |-> FALSE]

\* a run that has not called the streaming request yet
NoRenderedRun ==
    [branch |-> "final", content |-> <<>>, deltas |-> <<>>, builder |-> <<>>,
     streamFailed |-> FALSE, FinalAnswer |-> <<>>, Status |-> "failure",
     noticed |-> FALSE, err |-> "nil"]

\* no interactive run is followed
RenderIdle ==
    /\ rnPc = "idle"
    /\ rnRun = NoRenderedRun
    /\ renderer = NewStdoutRenderer(FALSE, FALSE)
    /\ written = <<>>

\* no search yet: nothing covered, nothing found
NoSearch == [dirs |-> {}, found |-> <<>>]

\* Execute of the grep tool has not returned
NoGrepRet ==
    [returned |-> FALSE, err |-> <<>>,
     Payload |-> [Matches |-> <<>>, Truncated |-> FALSE, Warning |-> <<>>]]

\* no grep call in flight
GrepIdle ==
    /\ grTool = [rgPath |-> <<>>]
    /\ grArgs = [Pattern |-> <<>>, Paths |-> <<>>, MaxResults |-> 0]
    /\ grMeta = [RepoRoot |-> RepoRoot, MaxResults |-> 0, MaxBytes |-> 0]
    /\ wd = RepoRoot
    /\ grPc = "idle"
    /\ grSearch = NoSearch
    /\ grRet = NoGrepRet

\* the parts that are idle in every specification but their own
RestIdle == CallIdle /\ RenderIdle /\ GrepIdle

\* the variables of Run as Run finds them
InitRun ==
    /\ pc = "Run"
    /\ cancelled = FALSE
    /\ plan = <<>>
    /\ messages = <<>>
    /\ steps = 0
    /\ response = NoResponse
    /\ callIdx = 0
    /\ finalAnswer = <<>>
    /\ result = NewRunResult
    /\ retErr = "nil"
    /\ requests = <<>>
    /\ executed = <<>>
    /\ issued = 0

Init ==
    /\ cfg \in Configs
    /\ InitRun
    /\ ShellIdle
    /\ MainIdle
    /\ RestIdle

(***************************************************************************)
(* Pieces of Run.                                                          *)
(***************************************************************************)
\* variant: every event is appended twice
Emit_Twice(res, type) == [res EXCEPT !.Events = Append(Append(@, type), type)]

\* emit: append the event to result.Events
Emit(res, type) == [res EXCEPT !.Events = Append(@, type)]

\* a request handed to the client
Request(kind, msgs) == [kind |-> kind, messages |-> msgs, outcome |-> "pending"]

\* the outcome of the request or of the tool call in flight (the last one)
Answered(reqs, outcome) == [reqs EXCEPT ![Len(reqs)].outcome = outcome]

\* messages of the planning request
PlanMessages ==
    <<SystemMessage("system"), DeveloperMessage("planPrompt"),
      DeveloperMessage("repo"), UserMessage("question")>>

\* messages before the first step (shell history is disabled: NoHistory)
InitialMessages(noPlan, p) ==
    <<SystemMessage("system"), DeveloperMessage("developerPrompt"),
      DeveloperMessage("repo")>>
    \o (IF ~noPlan /\ Len(p) > 0 THEN <<DeveloperMessage("plan")>> ELSE <<>>)
    \o <<UserMessage("question")>>

\* variant: the step counter stays where it is
IncSteps_Stuck(n) == n

\* steps++
IncSteps(n) == n + 1

\* variant: the final answer is streamed in JSON mode too
Streams_Always(c) == TRUE

\* whether the final answer is requested in streaming form
Streams(c) == ~c.JSON

\* variant: the unknown-tool branch continues without a tool-result message
UnknownToolMessage_Skipped(msgs, call) == msgs

\* the tool-result message of a call to an unregistered tool
UnknownToolMessage(msgs, call) ==
    Append(msgs, ToolMessage({"error"}, call.ID))

\* the tool-result message of a call whose Execute returned an error
ErrorToolMessage(msgs, call) ==
    Append(msgs, ToolMessage({"error", "duration_ms"}, call.ID))

\* the tool-result message of a call whose Execute returned a Result
ResultToolMessage(msgs, call) ==
    Append(msgs, ToolMessage(ResultPayload(call.Name), call.ID))

\* ToolCallRecord
Record(name, status, payload) ==
    [ToolName |-> name, Status |-> status, Output |-> payload]

\* variant: the answer is never given the notice
WithMaxStepsNotice_Never(answer) == answer

\* the notice forced in front of an answer that lacks the phrase
WithMaxStepsNotice(answer) ==
    IF ~Contains(ToLower(answer), MaxStepsPhrase)
    THEN MaxStepsPrefix \o answer
    ELSE answer

\* the ModelDelta events of one streaming request
RECURSIVE EmitDeltas(_, _)
EmitDeltas(res, ds) ==
    IF ds = <<>> THEN res
    ELSE EmitDeltas(Emit(res, "ModelStreamingDelta"), Tail(ds))

\* variant: the success branch leaves Status as initialised
Succeed_StatusUnset(res, answer, n) ==
    Emit(Emit([res EXCEPT !.FinalAnswer = TrimSpace(answer),
                          !.StepsUsed = n],
              "FinalAnswerReady"), "RunFinished")

\* the terminal success branch: FinalAnswer, Status, StepsUsed, two events
Succeed(res, answer, n) ==
    Emit(Emit([res EXCEPT !.FinalAnswer = TrimSpace(answer),
                          !.Status = "success",
                          !.StepsUsed = n],
              "FinalAnswerReady"), "RunFinished")

\* variant: step exhaustion is reported as a success
Exhaust_Success(res, answer, n) ==
    Emit(Emit([res EXCEPT !.FinalAnswer = TrimSpace(WithMaxStepsNotice(answer)),
                          !.Status = "success",
                          !.StepsUsed = n],
              "FinalAnswerReady"), "RunFinished")

\* the terminal branch after step exhaustion
Exhaust(res, answer, n) ==
    Emit(Emit([res EXCEPT !.FinalAnswer = TrimSpace(WithMaxStepsNotice(answer)),
                          !.Status = "partial",
                          !.StepsUsed = n],
              "FinalAnswerReady"), "RunFinished")

\* variant: the failed request is not counted as a step
Fail_StepUncounted(res, n) ==
    [Emit(res, "RunError") EXCEPT !.Status = "failure", !.StepsUsed = n - 1]

\* the run-fatal branch of a failed step request
Fail(res, n) ==
    [Emit(res, "RunError") EXCEPT !.Status = "failure", !.StepsUsed = n]

(***************************************************************************)
(* Run, cut at its blocking calls.                                         *)
(***************************************************************************)
\* Run up to its first blocking call: RunStarted, then the planning request
\* or, with NoPlan, the initial messages
RunStart ==
    /\ pc = "Run"
    /\ result' = Emit(result, "RunStarted")
    /\ IF ~cfg.NoPlan
       THEN /\ requests' = Append(requests, Request("plan", PlanMessages))
            /\ pc' = "generatePlan"
            /\ messages' = messages
       ELSE /\ messages' = InitialMessages(cfg.NoPlan, plan)
            /\ pc' = "loop"
            /\ requests' = requests
    /\ UNCHANGED notAgentVars
    /\ UNCHANGED <<cfg, cancelled, plan, steps, response, callIdx,
                   finalAnswer, retErr, executed, issued>>

\* generatePlan: the planning request returns; PlanGenerated; initial messages
PlanReturnWith(ok, text) ==
    /\ pc = "generatePlan"
    /\ plan' = IF ok THEN parsePlan(text) ELSE FallbackPlan
    /\ requests' = Answered(requests, IF ok THEN "content" ELSE "error")
    /\ result' = Emit(result, "PlanGenerated")
    /\ messages' = InitialMessages(cfg.NoPlan, plan')
    /\ pc' = "loop"
    /\ UNCHANGED notAgentVars
    /\ UNCHANGED <<cfg, cancelled, steps, response, callIdx, finalAnswer,
                   retErr, executed, issued>>

\* the planning request returns from a client that honours the run context
PlanReturn ==
    \E ok \in BOOLEAN, text \in PlanTexts :
        /\ cancelled => ~ok
        /\ ~ok => text = CHOOSE x \in PlanTexts : TRUE
        /\ PlanReturnWith(ok, text)

\* loop head with budget left: steps++ and the step's Create request
StepRequest ==
    /\ pc = "loop"
    /\ steps < cfg.MaxSteps
    /\ steps' = IncSteps(steps)
    /\ requests' = Append(requests, Request("create", messages))
    /\ pc' = "Create"
    /\ UNCHANGED notAgentVars
    /\ UNCHANGED <<cfg, cancelled, plan, messages, response, callIdx,
                   finalAnswer, result, retErr, executed, issued>>

\* variant: a failed step request is logged and the loop goes on
CreateError_Continue ==
    /\ pc = "Create"
    /\ requests' = Answered(requests, "error")
    /\ result' = Emit(result, "RunError")
    /\ pc' = "loop"
    /\ UNCHANGED notAgentVars
    /\ UNCHANGED <<cfg, cancelled, plan, messages, steps, response, callIdx,
                   finalAnswer, retErr, executed, issued>>

\* the step's Create returns an error: RunError, status failure, return err
CreateError ==
    /\ pc = "Create"
    /\ requests' = Answered(requests, "error")
    /\ result' = Fail(result, steps)
    /\ retErr' = "transport"
    /\ pc' = "returned"
    /\ UNCHANGED notAgentVars
    /\ UNCHANGED <<cfg, cancelled, plan, messages, steps, response, callIdx,
                   finalAnswer, executed, issued>>

\* the step's Create returns a response without tool calls: in JSON mode the
\* run succeeds with its content, otherwise the request is re-issued streaming
CreateFinalWith(content) ==
    /\ pc = "Create"
    /\ response' = [Content |-> content, ToolCalls |-> <<>>]
    /\ finalAnswer' = TrimSpace(content)
    /\ IF Streams(cfg)
       THEN /\ requests' = Append(Answered(requests, "content"),
                                  Request("stream", messages))
            /\ pc' = "streamFinal"
            /\ result' = result
       ELSE /\ requests' = Answered(requests, "content")
            /\ result' = Succeed(result, finalAnswer', steps)
            /\ pc' = "returned"
    /\ UNCHANGED notAgentVars
    /\ UNCHANGED <<cfg, cancelled, plan, messages, steps, callIdx, retErr,
                   executed, issued>>

\* a response without tool calls from a client that honours the run context
CreateFinal ==
    /\ ~cancelled
    /\ \E content \in Contents : CreateFinalWith(content)

\* the step's Create returns tool calls: the assistant message is appended
\* and the range loop over the calls starts
CreateToolCallsWith(names) ==
    /\ pc = "Create"
    /\ response' = [Content |-> <<>>,
                    ToolCalls |-> [i \in 1..Len(names) |->
                                     [ID |-> issued + i, Name |-> names[i]]]]
    /\ issued' = issued + Len(names)
    /\ messages' = Append(messages, AssistantMessage(response'.ToolCalls))
    /\ requests' = Answered(requests, "tool_calls")
    /\ callIdx' = 1
    /\ pc' = "calls"
    /\ UNCHANGED notAgentVars
    /\ UNCHANGED <<cfg, cancelled, plan, steps, finalAnswer, result, retErr,
                   executed>>

\* tool calls from a client that honours the run context
CreateToolCalls ==
    /\ ~cancelled
    /\ \E n \in 1..MaxCalls : \E names \in [1..n -> RequestedNames] :
          /\ issued + n <= MaxIssued
          /\ CreateToolCallsWith(names)

\* the range loop moves past call i: the next call, or back to the loop head
NextCall(i) ==
    IF i < Len(response.ToolCalls)
    THEN callIdx' = i + 1 /\ pc' = "calls"
    ELSE callIdx' = 0 /\ pc' = "loop"

\* variant: an unregistered tool name ends the run with an error
CallUnknownTool_Fatal ==
    /\ pc = "calls"
    /\ LET call == response.ToolCalls[callIdx]
       IN  /\ ~Get(call.Name)
           /\ result' = Fail(result, steps)
           /\ retErr' = "unknown tool"
           /\ pc' = "returned"
    /\ UNCHANGED notAgentVars
    /\ UNCHANGED <<cfg, cancelled, plan, messages, steps, response, callIdx,
                   finalAnswer, requests, executed, issued>>

\* a call that names an unregistered tool: ToolCallFailed, a synthetic error
\* tool-result message, continue
CallUnknownTool ==
    /\ pc = "calls"
    /\ LET call == response.ToolCalls[callIdx]
       IN  /\ ~Get(call.Name)
           /\ result' = Emit(result, "ToolCallFailed")
           /\ messages' = UnknownToolMessage(messages, call)
           /\ NextCall(callIdx)
    /\ UNCHANGED notAgentVars
    /\ UNCHANGED <<cfg, cancelled, plan, steps, response, finalAnswer,
                   retErr, requests, executed, issued>>

\* a call that names a registered tool: ToolCallStarted, then tool.Execute
CallExecute ==
    /\ pc = "calls"
    /\ LET call == response.ToolCalls[callIdx]
       IN  /\ Get(call.Name)
           /\ result' = Emit(result, "ToolCallStarted")
           /\ executed' = Append(executed, [ID |-> call.ID, outcome |-> "running"])
           /\ pc' = "Execute"
    /\ UNCHANGED notAgentVars
    /\ UNCHANGED <<cfg, cancelled, plan, messages, steps, response, callIdx,
                   finalAnswer, retErr, requests, issued>>

\* variant: a tool's error is returned from Run like a transport error
ExecuteError_Fatal ==
    /\ pc = "Execute"
    /\ result' = Fail(result, steps)
    /\ retErr' = "tool"
    /\ pc' = "returned"
    /\ executed' = Answered(executed, "error")
    /\ UNCHANGED notAgentVars
    /\ UNCHANGED <<cfg, cancelled, plan, messages, steps, response, callIdx,
                   finalAnswer, requests, issued>>

\* tool.Execute returns an error: record with status error, ToolCallFailed,
\* tool-result message {error, duration_ms}, continue
ExecuteError ==
    /\ pc = "Execute"
    /\ LET call == response.ToolCalls[callIdx]
       IN  /\ result' = Emit([result EXCEPT !.ToolCalls =
                                Append(@, Record(call.Name, "error",
                                                 {"error", "duration_ms"}))],
                             "ToolCallFailed")
           /\ messages' = ErrorToolMessage(messages, call)
           /\ NextCall(callIdx)
    /\ executed' = Answered(executed, "error")
    /\ UNCHANGED notAgentVars
    /\ UNCHANGED <<cfg, cancelled, plan, steps, response, finalAnswer,
                   retErr, requests, issued>>

\* tool.Execute returns a Result: record with status success,
\* ToolCallFinished, tool-result message with the payload
ExecuteResult ==
    /\ pc = "Execute"
    /\ LET call == response.ToolCalls[callIdx]
       IN  /\ result' = Emit([result EXCEPT !.ToolCalls =
                                Append(@, Record(call.Name, "success",
                                                 ResultPayload(call.Name)))],
                             "ToolCallFinished")
           /\ messages' = ResultToolMessage(messages, call)
           /\ NextCall(callIdx)
    /\ executed' = Answered(executed, "result")
    /\ UNCHANGED notAgentVars
    /\ UNCHANGED <<cfg, cancelled, plan, steps, response, finalAnswer,
                   retErr, requests, issued>>

\* streamFinal returns after a response without tool calls: the streamed text
\* replaces the content unless the stream failed or the text is blank
StreamFinalReturnWith(ok, ds) ==
    /\ pc = "streamFinal"
    /\ LET streamed == Concat(ds)
           answer == IF ok /\ TrimSpace(streamed) # <<>>
                     THEN streamed ELSE finalAnswer
       IN  /\ finalAnswer' = answer
           /\ result' = Succeed(EmitDeltas(result, ds), answer, steps)
    /\ requests' = Answered(requests, IF ok THEN "streamed" ELSE "error")
    /\ pc' = "returned"
    /\ UNCHANGED notAgentVars
    /\ UNCHANGED <<cfg, cancelled, plan, messages, steps, response, callIdx,
                   retErr, executed, issued>>

\* the stream of a client that honours the run context
StreamFinalReturn ==
    \E ok \in BOOLEAN, ds \in StreamDeltas :
        /\ cancelled => ~ok
        /\ StreamFinalReturnWith(ok, ds)

\* loop head with the budget used up: the developer warning is appended; in
\* JSON mode the run ends partial at once, otherwise the answer is streamed
MaxStepsReached ==
    /\ pc = "loop"
    /\ ~(steps < cfg.MaxSteps)
    /\ messages' = Append(messages, DeveloperMessage("warning"))
    /\ finalAnswer' = MaxStepsDefault
    /\ IF Streams(cfg)
       THEN /\ requests' = Append(requests, Request("stream", messages'))
            /\ pc' = "streamMax"
            /\ result' = result
            /\ retErr' = retErr
       ELSE /\ result' = Exhaust(result, finalAnswer', steps)
            /\ retErr' = "max steps reached"
            /\ pc' = "returned"
            /\ requests' = requests
    /\ UNCHANGED notAgentVars
    /\ UNCHANGED <<cfg, cancelled, plan, steps, response, callIdx, executed,
                   issued>>

\* streamFinal returns after step exhaustion: status partial, error returned
StreamMaxReturnWith(ok, ds) ==
    /\ pc = "streamMax"
    /\ LET streamed == Concat(ds)
           answer == IF ok /\ TrimSpace(streamed) # <<>>
                     THEN streamed ELSE finalAnswer
       IN  /\ finalAnswer' = answer
           /\ result' = Exhaust(EmitDeltas(result, ds), answer, steps)
    /\ requests' = Answered(requests, IF ok THEN "streamed" ELSE "error")
    /\ retErr' = "max steps reached"
    /\ pc' = "returned"
    /\ UNCHANGED notAgentVars
    /\ UNCHANGED <<cfg, cancelled, plan, messages, steps, response, callIdx,
                   executed, issued>>

\* the stream of a client that honours the run context
StreamMaxReturn ==
    \E ok \in BOOLEAN, ds \in StreamDeltas :
        /\ cancelled => ~ok
        /\ StreamMaxReturnWith(ok, ds)

\* the run context is cancelled: interrupt signal or the overall timeout
Cancel ==
    /\ pc \notin {"Run", "returned"}
    /\ ~cancelled
    /\ cancelled' = TRUE
    /\ UNCHANGED notAgentVars
    /\ UNCHANGED <<cfg, pc, plan, messages, steps, response, callIdx,
                   finalAnswer, result, retErr, requests, executed, issued>>

Next ==
    \/ RunStart
    \/ PlanReturn
    \/ StepRequest
    \/ CreateError
    \/ CreateFinal
    \/ CreateToolCalls
    \/ CallUnknownTool
    \/ CallExecute
    \/ ExecuteError
    \/ ExecuteResult
    \/ StreamFinalReturn
    \/ MaxStepsReached
    \/ StreamMaxReturn
    \/ Cancel

Spec == Init /\ [][Next]_vars

\* Run called with any step budget, zero included
InitAnyBudget ==
    /\ cfg \in [MaxSteps : 0..MaxStepsBound, JSON : BOOLEAN, NoPlan : BOOLEAN]
    /\ InitRun
    /\ ShellIdle
    /\ MainIdle
    /\ RestIdle

\* the steps of Run itself and the returns of the calls it waits for
RunProceeds ==
    \/ RunStart
    \/ PlanReturn
    \/ StepRequest
    \/ CreateError
    \/ CreateFinal
    \/ CreateToolCalls
    \/ CallUnknownTool
    \/ CallExecute
    \/ ExecuteError
    \/ ExecuteResult
    \/ StreamFinalReturn
    \/ MaxStepsReached
    \/ StreamMaxReturn

\* Run where every call it makes returns
SpecReturning == InitAnyBudget /\ [][Next]_vars /\ WF_vars(RunProceeds)

(***************************************************************************)
(* MockClient (src/internal/llm/mock.go): the deterministic client of the  *)
(* tests and demos.  It ignores the run context and never fails.           *)
(***************************************************************************)
\* the content of the first Create
MockPlanContent ==
    <<"-", " ", "R", "e", "v", "i", "e", "w", " ", "r", "e", "p", "o", "s",
      "i", "t", "o", "r", "y", " ", "c", "o", "n", "t", "e", "x", "t",
      "\n", "-", " ", "U", "s", "e", " ", "g", "r", "e", "p", " ", "t",
      "o", " ", "f", "i", "n", "d", " ", "s", "i", "g", "n", "a", "l", "s",
      "\n", "-", " ", "S", "u", "m", "m", "a", "r", "i", "z", "e", " ",
      "f", "i", "n", "d", "i", "n", "g", "s", " ", "w", "i", "t", "h", " ",
      "c", "i", "t", "a", "t", "i", "o", "n", "s">>

\* the content of the third and later Creates, and of every Stream
MockAnswerContent ==
    <<"S", "u", "m", "m", "a", "r", "y", ":", " ", "M", "o", "c", "k", " ",
      "r", "e", "s", "p", "o", "n", "s", "e", " ", "b", "a", "s", "e", "d",
      " ", "o", "n", " ", "t", "o", "o", "l", " ", "r", "e", "s", "u", "l",
      "t", "s", ".", " ", "[", "t", "o", "o", "l", ":", "g", "r", "e", "p",
      "]", "\n", "N", "e", "x", "t", " ", "s", "t", "e", "p", "s", ":",
      " ", "R", "e", "v", "i", "e", "w", " ", "t", "h", "e", " ", "r", "e",
      "f", "e", "r", "e", "n", "c", "e", "d", " ", "f", "i", "l", "e", "s",
      " ", "f", "o", "r", " ", "d", "e", "t", "a", "i", "l", "s", ".">>

\* m.calls after the increment of the Create in flight: planning requests and
\* step requests go through Create, streaming requests do not
MockCalls ==
    Cardinality({i \in 1..Len(requests) :
                    requests[i].kind \in {"plan", "create"}})

\* variant: every Create after the first requests the grep call
MockCreate_AlwaysCalls(n) ==
    IF n = 1 THEN [Content |-> MockPlanContent, ToolCalls |-> <<>>]
    ELSE [Content |-> <<>>, ToolCalls |-> <<"grep">>]

\* MockClient.Create: the response to the n-th Create (tool calls by name)
MockCreate(n) ==
    IF n = 1 THEN [Content |-> MockPlanContent, ToolCalls |-> <<>>]
    ELSE IF n = 2 THEN [Content |-> <<>>, ToolCalls |-> <<"grep">>]
    ELSE [Content |-> MockAnswerContent, ToolCalls |-> <<>>]

\* MockClient.Stream: one delta carrying the whole answer
MockStream == <<MockAnswerContent>>

\* generatePlan with the mock: the content of the Create is parsed as the plan
MockPlanReturn == PlanReturnWith(TRUE, MockCreate(MockCalls).Content)

\* a step's Create with the mock returns a response without tool calls
MockCreateFinal ==
    /\ pc = "Create"
    /\ MockCreate(MockCalls).ToolCalls = <<>>
    /\ CreateFinalWith(MockCreate(MockCalls).Content)

\* a step's Create with the mock returns the grep call
MockCreateToolCalls ==
    /\ pc = "Create"
    /\ MockCreate(MockCalls).ToolCalls # <<>>
    /\ CreateToolCallsWith(MockCreate(MockCalls).ToolCalls)

MockStreamFinalReturn == StreamFinalReturnWith(TRUE, MockStream)

MockStreamMaxReturn == StreamMaxReturnWith(TRUE, MockStream)

\* a run of Agent.Run driven by the mock client
NextMock ==
    \/ RunStart
    \/ MockPlanReturn
    \/ StepRequest
    \/ MockCreateFinal
    \/ MockCreateToolCalls
    \/ CallExecute
    \/ ExecuteError
    \/ ExecuteResult
    \/ MockStreamFinalReturn
    \/ MaxStepsReached
    \/ MockStreamMaxReturn
    \/ Cancel

SpecMock == Init /\ [][NextMock]_vars

(***************************************************************************)
(* ShellTool.Execute, from the call to the agent's record of it.  The      *)
(* child is followed in two runs that differ only in the environment of    *)
(* the tool's own process.                                                 *)
(***************************************************************************)
\* largest meta.MaxBytes explored (ToolLimits.ShellMaxBytes, positive)
MaxBytesBound == 16

\* commands the model may put in args.Command
Commands ==
    { <<>>, <<" ">>,
      <<"l", "s">>, <<"l", "s", " ", "f", "a", "r", "m">>, <<"l", "s", " ", ">", " ", "/", "e", "t", "c", "/", "x">>,
      <<"g", "i", "t", " ", "s", "t", "a", "t", "u", "s", " ", "-", "s", "b">>, <<"G", "I", "T", " ", "S", "t", "a", "t", "u", "s">>, <<"g", "i", "t", " ", "c", "o", "m", "m", "i", "t", " ", "-", "m", " ", "x">>,
      <<"\"", "g", "i", "t", "\"", " ", "s", "t", "a", "t", "u", "s", " ", "r", "m">>,
      <<"r", "m", " ", "-", "r", "f", " ", "/">>, <<"k", "i", "l", "l", " ", "-", "9", " ", "1">>,
      <<"c", "u", "r", "l", " ", "x">>, <<"C", "U", "R", "L", " ", "x">>, <<"s", "s", "h", " ", "h">>,
      <<"v", "i", "m", " ", "a">>, <<"V", "I", " ", "a">>,
      <<"e", "c", "h", "o", " ", "\"", "a">>, <<"T", "O", "K", "E", "N", "=", "a", "b", "c", "1", "2", "3", " ", "l", "s">>,
      <<"r", "\\", "m", " ", "x">>, <<"/", "b", "i", "n", "/", "v", "i", " ", "a">> }

\* allowlists the configuration may give NewShellTool
Allowlists ==
    { <<>>,
      << <<" ">> >>,
      << <<"g", "i", "t", " ", "s", "t", "a", "t", "u", "s">> >>,
      << <<"G", "i", "t", " ", " ", "S", "t", "a", "t", "u", "s">>, <<"l", "s">>, <<"r", "m">>, <<"k", "i", "l", "l">>, <<"c", "u", "r", "l">>, <<"s", "s", "h">>, <<"v", "i">>,
         <<"v", "i", "m">>, <<"'", "x">> >> }

\* directories the model may put in args.Cwd
Cwds ==
    { <<>>, <<" ">>, <<"s", "u", "b">>, <<"s", "u", "b", "/", ".", ".", "/", ".", ".">>, <<".", ".", "/", "x">>, <<".", ".", "f", "o", "o">>,
      <<"/", "r", "e", "p", "o", "/", "s", "u", "b", "/", ".", ".">>, <<"/", "r", "e", "p", "o", "/", ".", ".", "/", "e", "t", "c">>, <<"/", "e", "t", "c">>, <<"/", "r", "e", "p", "o", "2">> }

\* environments of the tool's process, as "NAME=value" entries: the first
\* run has the plain one, the second run any of them
PlainEnvironment == {"PATH=/usr/bin"}
Environments == {PlainEnvironment, PlainEnvironment \cup {"FICLI_API_KEY=sk-1"}}

\* what a child may write to stdout or to stderr
Outputs ==
    { <<>>,
      <<"o", "k", "\n">>,
      <<"t", "o", "k", "e", "n", "=", "a", "b", "c", "1", "2", "3", " ",
        "0", "1", "2", "3", "4", "5", "6", "7", "8", "9", "\n">> }

\* nonzero exit codes of a child that exits on its own
ExitCodes == {1, 2}

InitShell ==
    /\ cfg = [MaxSteps |-> 1, JSON |-> TRUE, NoPlan |-> TRUE]
    /\ InitRun
    /\ \E list \in Allowlists : shTool = [allowlist |-> normalizeAllowlist(list)]
    /\ shArgs \in [Command : Commands, Cwd : Cwds]
    /\ shMeta \in [UnsafeShell : BOOLEAN, RepoRoot : {RepoRoot},
                   MaxBytes : {MaxBytesBound}]
    /\ environ \in {PlainEnvironment} \X Environments
    /\ shPc = "Execute"
    /\ shCmd = NoCmd
    /\ shProc = NoProc
    /\ shRet = NoRet
    /\ shRecord = NoRecord
    /\ MainIdle
    /\ RestIdle

\* variant: the command name is looked up as typed
cmdKey_AsTyped(cmdParts) == cmdParts[1]

\* cmdKey: the command name in lower case
cmdKey(cmdParts) == ToLower(cmdParts[1])

\* variant: only the command name is matched against the entries
allows_NameOnly(tool, cmdParts) ==
    \E e \in 1..Len(tool.allowlist) :
        ToLower(cmdParts[1]) = tool.allowlist[e][1]

\* s.allowed(cmdParts)
allows(tool, cmdParts) == allowed(tool.allowlist, cmdParts)

\* variant: no command name is a network tool
blocksNetwork_Never(key) == FALSE

\* the command name is in networkTools
blocksNetwork(key) == key \in networkTools

\* variant: the patterns are not tried
blocksDestructive_Never(command) == FALSE

\* the loop over destructivePatterns on the raw command
blocksDestructive(command) == destructivePatterns(command)

\* variant: the network check comes before the allowlist match
SafeChecks_NetworkFirst(tool, args, cmdParts) ==
    IF tool.allowlist = <<>>
    THEN <<"s", "h", "e", "l", "l", " ", "a", "l", "l", "o", "w", "l", "i", "s", "t", " ", "i", "s", " ", "e", "m", "p", "t", "y">>
    ELSE IF blocksNetwork(cmdKey(cmdParts))
    THEN <<"n", "e", "t", "w", "o", "r", "k", " ", "c", "o", "m", "m", "a", "n", "d", "s", " ", "a", "r", "e", " ", "b", "l", "o", "c", "k", "e", "d", " ", "b", "y", " ", "d", "e", "f", "a", "u", "l", "t", ":", " ">> \o cmdParts[1]
    ELSE IF ~allows(tool, cmdParts)
    THEN <<"c", "o", "m", "m", "a", "n", "d", " ", "n", "o", "t", " ", "a", "l", "l", "o", "w", "l", "i", "s", "t", "e", "d", ":", " ">> \o cmdParts[1]
    ELSE IF blocksDestructive(args.Command)
    THEN <<"b", "l", "o", "c", "k", "e", "d", " ", "p", "o", "t", "e", "n", "t", "i", "a", "l", "l", "y", " ", "d", "e", "s", "t", "r", "u", "c", "t", "i", "v", "e", " ", "c", "o", "m", "m", "a", "n", "d">>
    ELSE <<>>

\* the checks that apply unless meta.UnsafeShell: the error, <<>> for none
SafeChecks(tool, args, cmdParts) ==
    IF tool.allowlist = <<>>
    THEN <<"s", "h", "e", "l", "l", " ", "a", "l", "l", "o", "w", "l", "i", "s", "t", " ", "i", "s", " ", "e", "m", "p", "t", "y">>
    ELSE IF ~allows(tool, cmdParts)
    THEN <<"c", "o", "m", "m", "a", "n", "d", " ", "n", "o", "t", " ", "a", "l", "l", "o", "w", "l", "i", "s", "t", "e", "d", ":", " ">> \o cmdParts[1]
    ELSE IF blocksNetwork(cmdKey(cmdParts))
    THEN <<"n", "e", "t", "w", "o", "r", "k", " ", "c", "o", "m", "m", "a", "n", "d", "s", " ", "a", "r", "e", " ", "b", "l", "o", "c", "k", "e", "d", " ", "b", "y", " ", "d", "e", "f", "a", "u", "l", "t", ":", " ">> \o cmdParts[1]
    ELSE IF blocksDestructive(args.Command)
    THEN <<"b", "l", "o", "c", "k", "e", "d", " ", "p", "o", "t", "e", "n", "t", "i", "a", "l", "l", "y", " ", "d", "e", "s", "t", "r", "u", "c", "t", "i", "v", "e", " ", "c", "o", "m", "m", "a", "n", "d">>
    ELSE <<>>

\* the working directory of the child: RepoRoot, or args.Cwd resolved
WorkDir(args, meta) ==
    IF TrimSpace(args.Cwd) # <<>>
    THEN resolveCwd(meta.RepoRoot, args.Cwd)
    ELSE [err |-> <<>>, dir |-> meta.RepoRoot]

\* Execute up to exec.CommandContext: the error it returns, <<>> for none
Validate(tool, args, meta) ==
    LET split == splitCommand(args.Command)
    IN  IF TrimSpace(args.Command) = <<>>
        THEN <<"c", "o", "m", "m", "a", "n", "d", " ", "i", "s", " ", "r", "e", "q", "u", "i", "r", "e", "d">>
        ELSE IF split.err
        THEN <<"u", "n", "t", "e", "r", "m", "i", "n", "a", "t", "e", "d", " ", "q", "u", "o", "t", "e", " ", "o", "r", " ", "e", "s", "c", "a", "p", "e", " ", "i", "n", " ", "c", "o", "m", "m", "a", "n", "d">>
        ELSE IF split.args = <<>>
        THEN <<"c", "o", "m", "m", "a", "n", "d", " ", "i", "s", " ", "r", "e", "q", "u", "i", "r", "e", "d">>
        ELSE IF cmdKey(split.args) \in interactive
        THEN <<"i", "n", "t", "e", "r", "a", "c", "t", "i", "v", "e", " ", "c", "o", "m", "m", "a", "n", "d", "s", " ", "a", "r", "e", " ", "n", "o", "t", " ", "a", "l", "l", "o", "w", "e", "d", ":", " ">> \o split.args[1]
        ELSE IF ~meta.UnsafeShell /\ SafeChecks(tool, args, split.args) # <<>>
        THEN SafeChecks(tool, args, split.args)
        ELSE WorkDir(args, meta).err

\* cmd after exec.CommandContext, cmd.Dir = cwd and cmd.Env = minimalEnv()
Command(args, meta) ==
    LET cmdParts == splitCommand(args.Command).args
    IN  [Path |-> cmdParts[1], Args |-> Tail(cmdParts),
         Dir |-> WorkDir(args, meta).dir, Env |-> minimalEnv, built |-> TRUE]

\* the environment os/exec gives a child: cmd.Env, the parent's when it is nil
ChildEnviron(cmdEnv, parent) == IF cmdEnv = "nil" THEN parent ELSE cmdEnv

\* variant: the flag follows stdout alone
ShellOutput_StdoutFlag(exitCode, stdout, stderr, meta) ==
    LET out == TruncateBytes(RedactSecrets(stdout), meta.MaxBytes)
        err == TruncateBytes(RedactSecrets(stderr), meta.MaxBytes)
    IN  [Stdout |-> out.text, Stderr |-> err.text, ExitCode |-> exitCode,
         Truncated |-> out.did]

\* shellOutput: both streams redacted, then cut to meta.MaxBytes
ShellOutput(exitCode, stdout, stderr, meta) ==
    LET outStr == RedactSecrets(stdout)
        errStr == RedactSecrets(stderr)
        out == IF meta.MaxBytes > 0 THEN TruncateBytes(outStr, meta.MaxBytes)
               ELSE [text |-> outStr, did |-> FALSE]
        err == IF meta.MaxBytes > 0 THEN TruncateBytes(errStr, meta.MaxBytes)
               ELSE [text |-> errStr, did |-> FALSE]
    IN  [Stdout |-> out.text, Stderr |-> err.text, ExitCode |-> exitCode,
         Truncated |-> out.did \/ err.did]

\* what cmd.Run may return: nil, an *exec.ExitError, another error
RunNil == [kind |-> "nil", code |-> 0, text |-> <<>>]
RunExitError(code) == [kind |-> "exit", code |-> code, text |-> <<>>]
RunOtherError(text) == [kind |-> "other", code |-> 0, text |-> text]

\* variant: every error of cmd.Run is returned from Execute
AfterRun_ExitIsError(runErr, stdout, stderr, meta) ==
    IF runErr.kind # "nil"
    THEN [returned |-> TRUE, err |-> <<"e", "x", "i", "t", " ", "s", "t", "a", "t", "u", "s">>, Payload |-> NoPayload]
    ELSE [returned |-> TRUE, err |-> <<>>,
          Payload |-> ShellOutput(0, stdout, stderr, meta)]

\* Execute after cmd.Run: an ExitError gives the exit code, another error is
\* returned, and the Result carries the shellOutput
AfterRun(runErr, stdout, stderr, meta) ==
    IF runErr.kind = "other"
    THEN [returned |-> TRUE, err |-> runErr.text, Payload |-> NoPayload]
    ELSE [returned |-> TRUE, err |-> <<>>,
          Payload |-> ShellOutput(IF runErr.kind = "exit" THEN runErr.code ELSE 0,
                                  stdout, stderr, meta)]

\* Execute runs its checks: it returns the first error, or builds cmd
ShellExecute ==
    /\ shPc = "Execute"
    /\ IF Validate(shTool, shArgs, shMeta) # <<>>
       THEN /\ shRet' = [returned |-> TRUE,
                         err |-> Validate(shTool, shArgs, shMeta),
                         Payload |-> NoPayload]
            /\ shPc' = "returned"
            /\ shCmd' = shCmd
       ELSE /\ shCmd' = Command(shArgs, shMeta)
            /\ shPc' = "Run"
            /\ shRet' = shRet
    /\ UNCHANGED <<shTool, shArgs, shMeta, environ, shProc, shRecord>>
    /\ UNCHANGED notShellVars

\* cmd.Run fails in Start: the program is not found, the directory is
\* missing, or the context is done already; no process exists
CmdStartError ==
    /\ shPc = "Run"
    /\ shRet' = AfterRun(RunOtherError(<<"e", "x", "e", "c", ":", " ", "\"">> \o shCmd.Path
                             \o <<"\"", ":", " ", "e", "x", "e", "c", "u", "t", "a", "b", "l", "e", " ", "f", "i", "l", "e", " ", "n", "o", "t", " ", "f", "o", "u", "n", "d", " ", "i", "n", " ", "$", "P", "A", "T", "H">>),
                         <<>>, <<>>, shMeta)
    /\ shPc' = "returned"
    /\ UNCHANGED <<shTool, shArgs, shMeta, environ, shCmd, shProc, shRecord>>
    /\ UNCHANGED notShellVars

\* cmd.Run starts the child, in each run with the environment os/exec gives it
CmdStart ==
    /\ shPc = "Run"
    /\ shProc' = [shProc EXCEPT
                    !.state = "running",
                    !.environ = [r \in 1..2 |-> ChildEnviron(shCmd.Env, environ[r])]]
    /\ shPc' = "Wait"
    /\ UNCHANGED <<shTool, shArgs, shMeta, environ, shCmd, shRet, shRecord>>
    /\ UNCHANGED notShellVars

\* the child writes to stdout or to stderr
ProcessWrites ==
    /\ shPc = "Wait"
    /\ shProc.stdout = <<>> /\ shProc.stderr = <<>>
    /\ \E out \in Outputs, err \in Outputs :
          /\ out # <<>> \/ err # <<>>
          /\ shProc' = [shProc EXCEPT !.stdout = out, !.stderr = err]
    /\ UNCHANGED <<shTool, shArgs, shMeta, environ, shPc, shCmd, shRet, shRecord>>
    /\ UNCHANGED notShellVars

\* the child exits with status 0 before the deadline: cmd.Run returns nil
ProcessExitsZero ==
    /\ shPc = "Wait"
    /\ shProc' = [shProc EXCEPT !.state = "exited"]
    /\ shRet' = AfterRun(RunNil, shProc.stdout, shProc.stderr, shMeta)
    /\ shPc' = "returned"
    /\ UNCHANGED <<shTool, shArgs, shMeta, environ, shCmd, shRecord>>
    /\ UNCHANGED notShellVars

\* the child exits with a nonzero status before the deadline: cmd.Run returns
\* an *exec.ExitError
ProcessExitsNonzero ==
    /\ shPc = "Wait"
    /\ \E code \in ExitCodes :
          /\ shProc' = [shProc EXCEPT !.state = "exited", !.code = code]
          /\ shRet' = AfterRun(RunExitError(code), shProc.stdout,
                               shProc.stderr, shMeta)
    /\ shPc' = "returned"
    /\ UNCHANGED <<shTool, shArgs, shMeta, environ, shCmd, shRecord>>
    /\ UNCHANGED notShellVars

\* ExitCode() of a process that a signal ended
KilledExitCode == -1

\* the context of exec.CommandContext is done while the child runs (the tool
\* timeout, or the deadline or interrupt of the run): os/exec kills the
\* child and cmd.Run returns an *exec.ExitError, signal: killed
DeadlineKills ==
    /\ shPc = "Wait"
    /\ shProc' = [shProc EXCEPT !.state = "killed", !.code = KilledExitCode,
                                !.deadline = TRUE]
    /\ shRet' = AfterRun(RunExitError(KilledExitCode), shProc.stdout,
                         shProc.stderr, shMeta)
    /\ shPc' = "returned"
    /\ UNCHANGED <<shTool, shArgs, shMeta, environ, shCmd, shRecord>>
    /\ UNCHANGED notShellVars

\* the context is done as the child exits with status 0 and before os/exec
\* has reaped it: the kill is delivered to the finished child, and cmd.Run
\* returns the context's error in place of nil
DeadlineAtExit ==
    /\ shPc = "Wait"
    /\ shProc' = [shProc EXCEPT !.state = "exited", !.deadline = TRUE]
    /\ shRet' = AfterRun(RunOtherError(<<"c", "o", "n", "t", "e", "x", "t", " ", "d", "e", "a", "d", "l", "i", "n", "e", " ", "e", "x", "c", "e", "e", "d", "e", "d">>),
                         shProc.stdout, shProc.stderr, shMeta)
    /\ shPc' = "returned"
    /\ UNCHANGED <<shTool, shArgs, shMeta, environ, shCmd, shRecord>>
    /\ UNCHANGED notShellVars

\* the texts json.Marshal puts in the content of the tool-result message
ErrorContent(err) == [error |-> err]
ResultContent(payload) == [stdout |-> payload.Stdout, stderr |-> payload.Stderr]

\* Run after tool.Execute returned: the record and the tool-result message
AgentRecords ==
    /\ shPc = "returned"
    /\ shRecord' =
          IF shRet.err # <<>>
          THEN [recorded |-> TRUE, Status |-> "error",
                Output |-> {"error", "duration_ms"},
                content |-> ErrorContent(shRet.err)]
          ELSE [recorded |-> TRUE, Status |-> "success",
                Output |-> ResultPayload("shell"),
                content |-> ResultContent(shRet.Payload)]
    /\ shPc' = "recorded"
    /\ UNCHANGED <<shTool, shArgs, shMeta, environ, shCmd, shProc, shRet>>
    /\ UNCHANGED notShellVars

NextShell ==
    \/ ShellExecute
    \/ CmdStartError
    \/ CmdStart
    \/ ProcessWrites
    \/ ProcessExitsZero
    \/ ProcessExitsNonzero
    \/ DeadlineKills
    \/ DeadlineAtExit
    \/ AgentRecords

SpecShell == InitShell /\ [][NextShell]_vars

(***************************************************************************)
(* The root command (src/cmd/fi-cli/main.go) from config.Load to           *)
(* tools.NewRegistry: which tools a run is given.                          *)
(***************************************************************************)
\* values of EXA_API_KEY: unset and set
ExaKeys == {<<>>, <<"k">>}

\* the fields of the configuration the tool set depends on
MainConfigs ==
    [UnsafeShell : BOOLEAN, ShellAllowlist : Allowlists, NoWeb : BOOLEAN]

InitMain ==
    /\ cfg = [MaxSteps |-> 1, JSON |-> TRUE, NoPlan |-> TRUE]
    /\ InitRun
    /\ ShellIdle
    /\ mainPc = "Load"
    /\ mainCfg = [UnsafeShell |-> FALSE, ShellAllowlist |-> <<>>,
                  NoWeb |-> FALSE]
    /\ exaKey \in ExaKeys
    /\ toolList = <<>>
    /\ registry = <<>>
    /\ RestIdle

GrepToolOf == [Name |-> "grep"]
ShellToolOf(list) == [Name |-> "shell", allowlist |-> normalizeAllowlist(list)]
ExaToolOf(key) == [Name |-> "exa_search", apiKey |-> key]

\* the condition under which the shell tool is appended to toolList
shellEnabled(c) == c.UnsafeShell \/ Len(c.ShellAllowlist) > 0

\* the condition under which the web search tool is appended to toolList
webEnabled(c, key) == key # <<>> /\ ~c.NoWeb

\* NewRegistry: the tools by name, a later tool replacing an earlier one
NewRegistry(items) ==
    [n \in {items[i].Name : i \in 1..Len(items)} |->
        items[CHOOSE i \in 1..Len(items) :
                 /\ items[i].Name = n
                 /\ \A j \in (i + 1)..Len(items) : items[j].Name # n]]

\* cfg, err := config.Load(cmd)
LoadConfig ==
    /\ mainPc = "Load"
    /\ mainCfg' \in MainConfigs
    /\ mainPc' = "grep"
    /\ UNCHANGED <<exaKey, toolList, registry>>
    /\ UNCHANGED notMainVars

\* toolList := []tools.Tool{grepTool}
ListGrep ==
    /\ mainPc = "grep"
    /\ toolList' = <<GrepToolOf>>
    /\ mainPc' = "shell"
    /\ UNCHANGED <<mainCfg, exaKey, registry>>
    /\ UNCHANGED notMainVars

\* the if statement that appends the shell tool
ListShell ==
    /\ mainPc = "shell"
    /\ toolList' = IF shellEnabled(mainCfg)
                   THEN Append(toolList, ShellToolOf(mainCfg.ShellAllowlist))
                   ELSE toolList
    /\ mainPc' = "exa"
    /\ UNCHANGED <<mainCfg, exaKey, registry>>
    /\ UNCHANGED notMainVars

\* the if statement that appends the web search tool or sets cfg.NoWeb
ListExa ==
    /\ mainPc = "exa"
    /\ IF webEnabled(mainCfg, exaKey)
       THEN /\ toolList' = Append(toolList, ExaToolOf(exaKey))
            /\ UNCHANGED mainCfg
       ELSE /\ mainCfg' = [mainCfg EXCEPT !.NoWeb = TRUE]
            /\ UNCHANGED toolList
    /\ mainPc' = "registry"
    /\ UNCHANGED <<exaKey, registry>>
    /\ UNCHANGED notMainVars

\* registry := tools.NewRegistry(toolList...)
BuildRegistry ==
    /\ mainPc = "registry"
    /\ registry' = NewRegistry(toolList)
    /\ mainPc' = "done"
    /\ UNCHANGED <<mainCfg, exaKey, toolList>>
    /\ UNCHANGED notMainVars

NextMain ==
    \/ LoadConfig
    \/ ListGrep
    \/ ListShell
    \/ ListExa
    \/ BuildRegistry

SpecMain == InitMain /\ [][NextMain]_vars

(***************************************************************************)
(* Library functions evaluated on their own: the arguments are chosen      *)
(* first, the function is applied to them in one step.                     *)
(***************************************************************************)
\* longest list of lines and largest line limit explored
MaxLineCount == 3

\* largest byte limit explored
MaxByteLimit == 6

\* the lines a list is made of
SomeLines == {<<>>, <<"a">>, <<"b", "c", "d">>}

RECURSIVE ListsUpTo(_, _)
ListsUpTo(elems, n) ==
    IF n = 0 THEN {<<>>}
    ELSE LET shorter == ListsUpTo(elems, n - 1)
         IN  shorter \cup {Append(l, e) : l \in shorter, e \in elems}

\* the other parts are idle while a library function is evaluated
InitCall ==
    /\ cfg = [MaxSteps |-> 1, JSON |-> TRUE, NoPlan |-> TRUE]
    /\ InitRun
    /\ ShellIdle
    /\ MainIdle
    /\ RenderIdle
    /\ GrepIdle
    /\ callPc = "call"
    /\ callRet = <<>>

InitTruncate ==
    /\ InitCall
    /\ callArgs \in [lines : ListsUpTo(SomeLines, MaxLineCount),
                     maxLines : -1..MaxLineCount,
                     maxBytes : -1..MaxByteLimit]

CallTruncateLinesAndBytes ==
    /\ callPc = "call"
    /\ callRet' = TruncateLinesAndBytes(callArgs.lines, callArgs.maxLines,
                                        callArgs.maxBytes)
    /\ callPc' = "returned"
    /\ UNCHANGED callArgs
    /\ UNCHANGED notCallVars

SpecTruncate == InitTruncate /\ [][CallTruncateLinesAndBytes]_vars

\* longest command explored character by character
MaxCommandLen == 4

\* the characters such a command is made of
CommandChars == {"a", " ", "\t", "'", "\"", "\\"}

\* longer commands
LongCommands ==
    { <<"e", "c", "h", "o", " ", "\"", "a", " ", "b", "\"">>, <<"e", "c", "h", "o", " ", "'", "a", "\\", " ", "b", "'", " ", "c">>, <<"g", "i", "t", " ", " ", "s", "t", "a", "t", "u", "s", "\n", "-", "s", "b">>, <<"a", "\\", " ", "b", " ", "\"", "c">> }

InitSplit ==
    /\ InitCall
    /\ callArgs \in ListsUpTo(CommandChars, MaxCommandLen) \cup LongCommands

CallSplitCommand ==
    /\ callPc = "call"
    /\ callRet' = splitCommand(callArgs)
    /\ callPc' = "returned"
    /\ UNCHANGED callArgs
    /\ UNCHANGED notCallVars

SpecSplit == InitSplit /\ [][CallSplitCommand]_vars

\* largest number of fragments a text is put together from
MaxFragments == 3

\* pieces of text that make, break or separate the four patterns
Fragments ==
    { <<"t", "o", "k", "e", "n", "=">>, <<"s", "e", "c", "r", "e", "t">>, <<":">>, <<" ">>, <<"'">>, <<"x">>, <<"e", "y", "J", "a", ".", "b">>,
      <<"s", "k", "-", "a", "1", "b", "2", "c", "3", "d", "4", "e", "5", "f", "6", "g", "7", "h", "8", "i", "9", "j", "0">>,
      <<"-", "-", "-", "-", "-", "B", "E", "G", "I", "N", " ", "R", "S", "A", " ", "P", "R", "I", "V", "A", "T", "E", " ", "K", "E", "Y", "-", "-", "-", "-", "-">>,
      <<"-", "-", "-", "-", "-", "E", "N", "D", " ", "R", "S", "A", " ", "P", "R", "I", "V", "A", "T", "E", " ", "K", "E", "Y", "-", "-", "-", "-", "-">> }

\* longer texts: the patterns adjacent and inside one another
LongTexts ==
    { <<"a", "p", "i", "_", "k", "e", "y", ":", " ", "s", "k", "-", "a", "1", "b", "2", "c", "3", "d", "4", "e", "5", "f", "6", "g", "7", "h", "8", "i", "9", "j", "0", " ", "e", "y", "J", "a", ".", "b", ".", "c">>,
      <<"p", "a", "s", "s", "w", "o", "r", "d", " ", "=", " ", "-", "-", "-", "-", "-", "B", "E", "G", "I", "N", " ", "P", "R", "I", "V", "A", "T", "E", " ", "K", "E", "Y", "-", "-", "-", "-", "-", "\n", "x", "\n", "-", "-", "-", "-", "-", "E", "N", "D", " ", "P", "R", "I", "V", "A", "T", "E", " ", "K", "E", "Y", "-", "-", "-", "-", "-">>,
      <<"-", "-", "-", "-", "-", "B", "E", "G", "I", "N", " ", "P", "R", "I", "V", "A", "T", "E", " ", "K", "E", "Y", "-", "-", "-", "-", "-", "t", "o", "k", "e", "n", "=", "x", " ", "e", "y", "J", "a", ".", "b", "-", "-", "-", "-", "-", "E", "N", "D", " ", "P", "R", "I", "V", "A", "T", "E", " ", "K", "E", "Y", "-", "-", "-", "-", "-", "x">>,
      <<"s", "k", "-", "a", "1", "b", "2", "c", "3", "d", "4", "e", "5", "f", "6", "g", "7", "h", "8", "t", "o", "k", "e", "n", "=", "x">>,
      <<"e", "y", "J", "a", ".", "b", ".", "s", "k", "-", "a", "1", "b", "2", "c", "3", "d", "4", "e", "5", "f", "6", "g", "7", "h", "8", "i", "9", "j", "0", ".", "e", "y", "J", "a", ".", "b">>,
      <<"t", "o", "k", "e", "n", "=", "[", "R", "E", "D", "A", "C", "T", "E", "D", "]", " ", "s", "e", "c", "r", "e", "t", ":", "[", "R", "E", "D", "A", "C", "T", "E", "D", " ", "J", "W", "T", "]">>,
      <<"T", "o", "k", "e", "n", " ", ":", " ", "'", "x", "'", " ", "S", "E", "C", "R", "E", "T", "=", "\"", "x", "\"", " ", "a", "p", "i", "k", "e", "y", "=", "e", "y", "J", "a", ".", "b">> }

RECURSIVE Flatten(_)
Flatten(parts) ==
    IF parts = <<>> THEN <<>> ELSE Head(parts) \o Flatten(Tail(parts))

InitRedact ==
    /\ InitCall
    /\ callArgs \in {Flatten(parts) : parts \in ListsUpTo(Fragments, MaxFragments)}
                       \cup LongTexts

\* the function applied once, and applied again to what it returned
CallRedactSecrets ==
    /\ callPc = "call"
    /\ callRet' = [once |-> RedactSecrets(callArgs),
                   twice |-> RedactSecrets(RedactSecrets(callArgs))]
    /\ callPc' = "returned"
    /\ UNCHANGED callArgs
    /\ UNCHANGED notCallVars

SpecRedact == InitRedact /\ [][CallRedactSecrets]_vars

(***************************************************************************)
(* An interactive run as its renderer sees it (src/internal/render/        *)
(* stdout.go): RunStarted, the deltas of the streaming request for the     *)
(* final answer, FinalAnswerReady.  Every event is handed to Emit as Run   *)
(* emits it.                                                               *)
(***************************************************************************)
\* strings.HasSuffix
HasSuffix(s, suffix) ==
    /\ Len(s) >= Len(suffix)
    /\ SubSeq(s, Len(s) - Len(suffix) + 1, Len(s)) = suffix

\* the two header lines, with fixed values for the fields of the payload
HeaderText == <<"f", "i", " ", "v", "1", " ", "|", " ", "r", "e", "p", "o", ":", " ", "/", "r", "e", "p", "o", " ", "|", " ", "m", "o", "d", "e", "l", ":", " ", "m", " ", "|", " ", "r", "u", "n", ":", " ", "r", "\n", "S", "t", "a", "r", "t", "e", "d", ":", " ", "t", "\n">>

\* "fi: " in front of the answer, once
FinalHeader(st) ==
    IF ~st.r.printedFinalHeader
    THEN [r |-> [st.r EXCEPT !.printedFinalHeader = TRUE],
          w |-> st.w \o <<"f", "i", ":", " ">>]
    ELSE st

\* the case FinalAnswerReady of Emit
OnFinalAnswerReady(st, event) ==
    IF st.r.sawDelta
    THEN IF ~st.r.endedWithNewline THEN [st EXCEPT !.w = @ \o <<"\n">>] ELSE st
    ELSE [(FinalHeader(st)) EXCEPT !.w = @ \o event.Answer \o <<"\n">>]

\* StdoutRenderer.Emit on the renderer r and the text w written so far; the
\* plan and tool events are not emitted on the way followed here
StdoutRendererEmit(st, event) ==
    CASE event.Type = "RunStarted" ->
            IF st.r.quiet \/ ~st.r.showHeader THEN st
            ELSE [st EXCEPT !.w = @ \o HeaderText]
      [] event.Type = "ModelStreamingDelta" ->
            LET a == FinalHeader(st)
            IN  IF event.Delta # <<>>
                THEN [r |-> [a.r EXCEPT !.sawDelta = TRUE,
                                        !.endedWithNewline =
                                            HasSuffix(event.Delta, <<"\n">>)],
                      w |-> a.w \o event.Delta]
                ELSE a
      [] event.Type = "FinalAnswerReady" -> OnFinalAnswerReady(st, event)
      [] event.Type = "RunError" ->
            [st EXCEPT !.w = @ \o <<"\n", "E", "r", "r", "o", "r", ":", " ">> \o event.Message \o <<"\n">>]
      [] OTHER -> st

InitRender ==
    /\ cfg = [MaxSteps |-> 1, JSON |-> FALSE, NoPlan |-> TRUE]
    /\ InitRun
    /\ ShellIdle
    /\ MainIdle
    /\ CallIdle
    /\ GrepIdle
    /\ rnPc = "Run"
    /\ \E branch \in {"final", "max"}, content \in Contents,
          ds \in StreamDeltas :
          rnRun = [NoRenderedRun EXCEPT !.branch = branch,
                                        !.content = content, !.deltas = ds]
    /\ \E quiet \in BOOLEAN, showHeader \in BOOLEAN :
          renderer = NewStdoutRenderer(quiet, showHeader)
    /\ written = <<>>

\* Run from its start to the streaming request for the final answer
RenderRunStarts ==
    /\ rnPc = "Run"
    /\ LET st == StdoutRendererEmit([r |-> renderer, w |-> written],
                                    [Type |-> "RunStarted"])
       IN  renderer' = st.r /\ written' = st.w
    /\ rnPc' = "stream"
    /\ UNCHANGED rnRun
    /\ UNCHANGED notRenderVars

\* onDelta of streamFinal: the event, then the builder
RenderOnDelta ==
    /\ rnPc = "stream"
    /\ rnRun.deltas # <<>>
    /\ LET delta == Head(rnRun.deltas)
           st == StdoutRendererEmit([r |-> renderer, w |-> written],
                                    [Type |-> "ModelStreamingDelta",
                                     Delta |-> delta])
       IN  /\ renderer' = st.r
           /\ written' = st.w
           /\ rnRun' = [rnRun EXCEPT !.deltas = Tail(@),
                                     !.builder = @ \o delta]
    /\ UNCHANGED rnPc
    /\ UNCHANGED notRenderVars

\* variant: whatever was streamed becomes the answer
StreamedOrContent_Streamed(ok, streamed, fallback) == streamed

\* the streamed text supersedes the answer Run has, unless the stream
\* failed or the text is blank
StreamedOrContent(ok, streamed, fallback) ==
    IF ok /\ TrimSpace(streamed) # <<>> THEN streamed ELSE fallback

\* streamFinal returns, with an error at any moment or with nil after the
\* last delta, and Run ends in its branch: the answer, the status, the events
RenderStreamReturns ==
    /\ rnPc = "stream"
    /\ \E ok \in BOOLEAN :
          /\ ok => rnRun.deltas = <<>>
          /\ LET fallback == IF rnRun.branch = "final"
                             THEN TrimSpace(rnRun.content)
                             ELSE MaxStepsDefault
                 final == StreamedOrContent(ok, rnRun.builder, fallback)
                 answer == IF rnRun.branch = "final"
                           THEN TrimSpace(final)
                           ELSE TrimSpace(WithMaxStepsNotice(final))
                 st == StdoutRendererEmit(
                           StdoutRendererEmit([r |-> renderer, w |-> written],
                                              [Type |-> "FinalAnswerReady",
                                               Answer |-> answer]),
                           [Type |-> "RunFinished"])
             IN  /\ renderer' = st.r
                 /\ written' = st.w
                 /\ rnRun' = [rnRun EXCEPT
                                 !.streamFailed = ~ok,
                                 !.FinalAnswer = answer,
                                 !.Status = IF rnRun.branch = "final"
                                            THEN "success" ELSE "partial",
                                 !.noticed =
                                     /\ rnRun.branch = "max"
                                     /\ WithMaxStepsNotice(final) # final,
                                 !.err = IF rnRun.branch = "final"
                                         THEN "nil"
                                         ELSE "max steps reached"]
    /\ rnPc' = "returned"
    /\ UNCHANGED notRenderVars

NextRender ==
    \/ RenderRunStarts
    \/ RenderOnDelta
    \/ RenderStreamReturns

SpecRender == InitRender /\ [][NextRender]_vars

\* what the two streams of a child may hold
StreamTexts == {<<>>, <<"o", "k", "\n">>, <<"t", "o", "k", "e", "n", ":", "a", "b", "c">>, <<"0", "1", "2", "3", "4", "5", "6">>}

InitShellOutput ==
    /\ InitCall
    /\ callArgs \in [stdout : StreamTexts, stderr : StreamTexts,
                     MaxBytes : -1..MaxByteLimit]

\* the end of Execute of the shell tool, applied to what a child wrote
CallShellOutput ==
    /\ callPc = "call"
    /\ callRet' = ShellOutput(0, callArgs.stdout, callArgs.stderr,
                              [MaxBytes |-> callArgs.MaxBytes])
    /\ callPc' = "returned"
    /\ UNCHANGED callArgs
    /\ UNCHANGED notCallVars

SpecShellOutput == InitShellOutput /\ [][CallShellOutput]_vars

(***************************************************************************)
(* The grep tool: one call of Execute, in ripgrep mode or with the         *)
(* in-process scan.                                                        *)
(***************************************************************************)
\* the default of tool_max_results a run is bounded by
GrepMaxResults == 2

\* the patterns of a call: blank ones, a regular expression, a broken one
GrepPatterns == {<<>>, <<" ">>, <<"x">>, <<"(">>}

\* the paths of a call
GrepPaths ==
    {<<>>, <<<<>>>>, <<<<"s", "u", "b">>>>, <<<<".">>>>, <<<<".", ".", "/", "x">>>>, <<<<"/", "e", "t", "c">>>>,
     <<<<"/", "r", "e", "p", "o", "/", "s", "u", "b">>, <<".", ".", "/", "x">>>>}

\* the directories the process may have been started in
WorkingDirs == {RepoRoot, <<"/", "r", "e", "p", "o", "/", "s", "u", "b">>, <<"/", "h", "o", "m", "e">>}

\* the lines a search may match, in the order the search meets them
MatchLines == {<<"a">>, <<"k", "=", "t", "o", "k", "e", "n", "=", "a", "b", "c">>}

\* regexp.Compile accepts the pattern
Compiles(pattern) == pattern # <<"(">>

\* the paths of a call, relative to the repo root, those outside it dropped
RECURSIVE sanitizePaths(_, _)
sanitizePaths(paths, repoRoot) ==
    IF paths = <<>> THEN <<>>
    ELSE LET p == Head(paths)
             abs == IF IsAbs(p) THEN p ELSE Join(repoRoot, p)
             rel == Rel(repoRoot, abs)
             out == sanitizePaths(Tail(paths), repoRoot)
         IN  IF p = <<>> THEN out
             ELSE IF rel.err \/ HasPrefix(rel.path, DotDot) THEN out
             ELSE <<rel.path>> \o out

\* the directory a path names to a process whose working directory is dir
Resolved(dir, path) == IF IsAbs(path) THEN Clean(path) ELSE Join(dir, path)

\* redactLines: every line through RedactSecrets
redactLines(lines) == [i \in DOMAIN lines |-> RedactSecrets(lines[i])]

\* the Result of Execute for the lines a search returned
GrepResult(matches, args, meta, warning) ==
    LET cut == TruncateLinesAndBytes(redactLines(matches), args.MaxResults,
                                     meta.MaxBytes)
    IN  [returned |-> TRUE, err |-> <<>>,
         Payload |-> [Matches |-> cut.out, Truncated |-> cut.truncated,
                      Warning |-> warning]]

\* Execute returning an error
GrepError(text) == [NoGrepRet EXCEPT !.returned = TRUE, !.err = text]

InitGrep ==
    /\ cfg = [MaxSteps |-> 1, JSON |-> TRUE, NoPlan |-> TRUE]
    /\ InitRun
    /\ ShellIdle
    /\ MainIdle
    /\ CallIdle
    /\ RenderIdle
    /\ \E rg \in {<<>>, <<"/", "u", "s", "r", "/", "b", "i", "n", "/", "r", "g">>} : grTool = [rgPath |-> rg]
    /\ grArgs \in [Pattern : GrepPatterns, Paths : GrepPaths,
                   MaxResults : 0..(GrepMaxResults + 1)]
    /\ grMeta = [RepoRoot |-> RepoRoot, MaxResults |-> GrepMaxResults,
                 MaxBytes |-> MaxByteLimit]
    /\ wd \in WorkingDirs
    /\ grPc = "Execute"
    /\ \E found \in ListsUpTo(MatchLines, MaxLineCount) :
          grSearch = [NoSearch EXCEPT !.found = found]
    /\ grRet = NoGrepRet

\* Execute up to the search: the checks of the input, then the command of
\* runRipgrep or the roots of runFallback
GrepExecute ==
    /\ grPc = "Execute"
    /\ LET args == IF grArgs.MaxResults <= 0
                   THEN [grArgs EXCEPT !.MaxResults = grMeta.MaxResults]
                   ELSE grArgs
           kept == sanitizePaths(args.Paths, grMeta.RepoRoot)
           rgPaths == IF kept = <<>> THEN <<<<".">>>> ELSE kept
           roots == IF kept = <<>> THEN <<grMeta.RepoRoot>> ELSE kept
       IN  IF TrimSpace(grArgs.Pattern) = <<>>
           THEN /\ grRet' = GrepError(<<"p", "a", "t", "t", "e", "r", "n", " ", "i", "s", " ", "r", "e", "q", "u", "i", "r", "e", "d">>)
                /\ grPc' = "returned"
                /\ UNCHANGED <<grArgs, grSearch>>
           ELSE IF grTool.rgPath # <<>>
           THEN /\ grArgs' = args
                /\ grSearch' = [grSearch EXCEPT !.dirs =
                      {Resolved(grMeta.RepoRoot, rgPaths[i]) :
                          i \in DOMAIN rgPaths}]
                /\ grPc' = "cmd.Run"
                /\ UNCHANGED grRet
           ELSE IF ~Compiles(args.Pattern)
           THEN /\ grArgs' = args
                /\ grRet' = GrepError(<<"e", "r", "r", "o", "r", " ", "p", "a", "r", "s", "i", "n", "g", " ", "r", "e", "g", "e", "x", "p">>)
                /\ grPc' = "returned"
                /\ UNCHANGED grSearch
           ELSE /\ grArgs' = args
                /\ grSearch' = [grSearch EXCEPT !.dirs =
                      {Resolved(wd, roots[i]) : i \in DOMAIN roots}]
                /\ grPc' = "walk"
                /\ UNCHANGED grRet
    /\ UNCHANGED <<grTool, grMeta, wd>>
    /\ UNCHANGED notGrepVars

\* rg exits with its matches on stdout, or with status 1 and none
RgExits ==
    /\ grPc = "cmd.Run"
    /\ grRet' = GrepResult(grSearch.found, grArgs, grMeta, <<>>)
    /\ grPc' = "returned"
    /\ UNCHANGED <<grTool, grArgs, grMeta, wd, grSearch>>
    /\ UNCHANGED notGrepVars

\* rg fails: another exit status, or killed at the timeout
RgFails ==
    /\ grPc = "cmd.Run"
    /\ grRet' = GrepError(<<"r", "g", " ", "f", "a", "i", "l", "e", "d">>)
    /\ grPc' = "returned"
    /\ UNCHANGED <<grTool, grArgs, grMeta, wd, grSearch>>
    /\ UNCHANGED notGrepVars

\* the walk of runFallback: it stops at the match that fills args.MaxResults
FallbackWalks ==
    /\ grPc = "walk"
    /\ LET n == Len(grSearch.found)
           stop == IF grArgs.MaxResults > 0 /\ n >= grArgs.MaxResults
                   THEN grArgs.MaxResults ELSE n
           matches == SubSeq(grSearch.found, 1, stop)
       IN  grRet' = GrepResult(matches, grArgs, grMeta,
                               <<"r", "g", " ", "n", "o", "t", " ", "f", "o", "u", "n", "d", ";", " ", "u", "s", "i", "n", "g", " ", "G", "o", " ", "f", "a", "l", "l", "b", "a", "c", "k">>)
    /\ grPc' = "returned"
    /\ UNCHANGED <<grTool, grArgs, grMeta, wd, grSearch>>
    /\ UNCHANGED notGrepVars

\* the timeout of runFallback has passed before a root is walked
FallbackDeadline ==
    /\ grPc = "walk"
    /\ grRet' = GrepError(<<"c", "o", "n", "t", "e", "x", "t", " ", "d", "e", "a", "d", "l", "i", "n", "e", " ", "e", "x", "c", "e", "e", "d", "e", "d">>)
    /\ grPc' = "returned"
    /\ UNCHANGED <<grTool, grArgs, grMeta, wd, grSearch>>
    /\ UNCHANGED notGrepVars

NextGrep ==
    \/ GrepExecute
    \/ RgExits
    \/ RgFails
    \/ FallbackWalks
    \/ FallbackDeadline

SpecGrep == InitGrep /\ [][NextGrep]_vars

(***************************************************************************)
(* Properties of the orchestration loop.                                   *)
(***************************************************************************)
\* the number of requests of a kind handed to the client so far
Count(kind) == Cardinality({i \in 1..Len(requests) : requests[i].kind = kind})

\* every assistant message of msgs is followed by a block of tool-result
\* messages, one for each of its calls and carrying that call's ID, and by no
\* further tool-result message; no tool-result message stands outside a block
Paired(msgs) ==
    /\ \A i \in 1..Len(msgs) :
          msgs[i].role = "assistant" =>
             LET calls == msgs[i].tool_calls
                 n == Len(calls)
             IN  /\ n >= 1
                 /\ i + n <= Len(msgs)
                 /\ \A k \in 1..n : msgs[i + k].role = "tool"
                 /\ \A c \in 1..n :
                       Cardinality({k \in 1..n :
                                      msgs[i + k].tool_call_id = calls[c].ID}) = 1
                 /\ i + n < Len(msgs) => msgs[i + n + 1].role # "tool"
    /\ \A j \in 1..Len(msgs) :
          msgs[j].role = "tool" =>
             \E i \in 1..(j - 1) :
                /\ msgs[i].role = "assistant"
                /\ j <= i + Len(msgs[i].tool_calls)

\* C1: in every request handed to the client, and whenever Run is not inside
\* the loop over a response's tool calls, each assistant turn is followed by
\* exactly one tool-result message per requested call, carrying the call's ID,
\* whether the tool was unknown, failed or succeeded.
C1_ToolResultsPaired ==
    /\ \A i \in 1..Len(requests) : Paired(requests[i].messages)
    /\ pc \notin {"calls", "Execute"} => Paired(messages)

\* a request is in flight whose messages answer a two-call turn with an
\* unknown-tool error and an execution error, and another turn with a result
C1_Witness ==
    /\ pc \in {"Create", "streamMax"}
    /\ LET msgs == requests[Len(requests)].messages
       IN  /\ \E i \in 1..Len(msgs) :
                 /\ msgs[i].role = "assistant"
                 /\ Len(msgs[i].tool_calls) = 2
                 /\ {msgs[i + 1].payload, msgs[i + 2].payload}
                      = {{"error"}, {"error", "duration_ms"}}
           /\ \E j \in 1..Len(msgs) :
                 msgs[j].role = "tool" /\ "matches" \in msgs[j].payload

\* C2: once a step's Create has failed, Run has returned that error with
\* status failure and an empty final answer, the failed request is the last
\* one handed to the client, and nothing was appended or executed after it.
C2_CreateFailureIsFatal ==
    \A i \in 1..Len(requests) :
       (requests[i].kind = "create" /\ requests[i].outcome = "error") =>
          /\ i = Len(requests)
          /\ pc = "returned"
          /\ retErr = "transport"
          /\ result.Status = "failure"
          /\ result.FinalAnswer = <<>>
          /\ messages = requests[i].messages
          /\ \A k \in 1..Len(executed) : executed[k].outcome # "running"

\* the second step's Create failed after a first step that ran a tool
C2_Witness ==
    /\ pc = "returned"
    /\ Count("create") = 2
    /\ requests[Len(requests)].outcome = "error"
    /\ Len(executed) >= 1
    /\ result.Status = "failure"

\* every step request so far was answered with tool calls
AlwaysToolCalls ==
    \A i \in 1..Len(requests) :
       requests[i].kind = "create" => requests[i].outcome = "tool_calls"

\* C3: with a step budget N >= 1 and a model that answers every step request
\* with tool calls, Run returns status partial with a non-nil error,
\* StepsUsed = N and a final answer containing "max steps" in any letter case,
\* in JSON mode and in interactive mode.
C3_ExhaustionIsPartial ==
    (pc = "returned" /\ cfg.MaxSteps >= 1 /\ AlwaysToolCalls) =>
       /\ result.Status = "partial"
       /\ retErr # "nil"
       /\ result.StepsUsed = cfg.MaxSteps
       /\ Contains(ToLower(result.FinalAnswer), MaxStepsPhrase)

\* interactive mode, budget 2 used up by tool calls, the streamed answer "ok"
\* lacked the phrase and was given the prefix
C3_Witness ==
    /\ pc = "returned"
    /\ ~cfg.JSON
    /\ cfg.MaxSteps = 2
    /\ AlwaysToolCalls
    /\ result.Status = "partial"
    /\ result.FinalAnswer = MaxStepsPrefix \o <<"o", "k">>

\* C4 (as claimed): a run that ends by step exhaustion has appended the
\* developer "max steps" instruction and then issued exactly one final model
\* request carrying it, in JSON mode as in interactive mode.
C4_FinalRequestAfterExhaustion ==
    (pc = "returned" /\ result.Status = "partial") =>
       /\ messages[Len(messages)] = DeveloperMessage("warning")
       /\ Cardinality({i \in 1..Len(requests) :
                          requests[i].messages = messages}) = 1

\* C5: when a registered tool's Execute returns an error, Run does not return
\* and leaves the status alone: it appends the tool-result message with the
\* fields error and duration_ms for that call, records the call with status
\* error, and moves on to the next call of the response or to the next step.
C5_ToolErrorIsRecoverable ==
    [][(/\ pc = "Execute"
        /\ executed[Len(executed)].outcome = "running"
        /\ executed'[Len(executed)].outcome = "error")
       => LET call == response.ToolCalls[callIdx]
          IN  /\ executed[Len(executed)].ID = call.ID
              /\ result'.Status = result.Status
              /\ retErr' = retErr
              /\ messages' = Append(messages,
                                    ToolMessage({"error", "duration_ms"}, call.ID))
              /\ result'.ToolCalls =
                    Append(result.ToolCalls,
                           Record(call.Name, "error", {"error", "duration_ms"}))
              /\ IF callIdx < Len(response.ToolCalls)
                 THEN pc' = "calls" /\ callIdx' = callIdx + 1
                 ELSE pc' = "loop"
      ]_vars

\* after a tool error in the first call of a step, the second call ran and a
\* further step request is in flight
C5_Witness ==
    /\ pc = "Create"
    /\ Count("create") = 2
    /\ Len(executed) = 2
    /\ executed[1].outcome = "error"
    /\ executed[2].outcome = "result"
    /\ result.ToolCalls[1].Status = "error"
    /\ result.Status = "failure"
    /\ retErr = "nil"

\* C6: a call that names an unregistered tool gets a synthetic error
\* tool-result message with its ID, nothing is executed for it, and the run
\* goes on with the next call of the response or with the next step.
C6_UnknownToolIsRecoverable ==
    [][(/\ pc = "calls"
        /\ ~Get(response.ToolCalls[callIdx].Name)
        /\ cancelled' = cancelled)
       => LET call == response.ToolCalls[callIdx]
          IN  /\ messages' = Append(messages, ToolMessage({"error"}, call.ID))
              /\ executed' = executed
              /\ retErr' = retErr
              /\ result'.Status = result.Status
              /\ IF callIdx < Len(response.ToolCalls)
                 THEN pc' = "calls" /\ callIdx' = callIdx + 1
                 ELSE pc' = "loop"
      ]_vars

\* an unknown tool was answered in the first call of a step, the registered
\* tool of the second call ran, and a further step request is in flight
C6_Witness ==
    /\ pc = "Create"
    /\ Count("create") = 2
    /\ Len(messages) >= 3
    /\ messages[Len(messages) - 2].role = "assistant"
    /\ messages[Len(messages) - 1].payload = {"error"}
    /\ "matches" \in messages[Len(messages)].payload
    /\ Len(executed) = 1

\* C7: a step response without tool calls ends the run: no later step request,
\* no message appended and no tool executed after it, Run returns status
\* success with a nil error, and in JSON mode it returns at once with the
\* trimmed content of that response as final answer.
C7_PlainResponseEndsRun ==
    \A i \in 1..Len(requests) :
       (requests[i].kind = "create" /\ requests[i].outcome = "content") =>
          /\ \A j \in (i + 1)..Len(requests) : requests[j].kind = "stream"
          /\ messages = requests[i].messages
          /\ pc \in {"streamFinal", "returned"}
          /\ \A k \in 1..Len(executed) : executed[k].outcome # "running"
          /\ pc = "returned" => result.Status = "success" /\ retErr = "nil"
          /\ cfg.JSON => /\ pc = "returned"
                         /\ i = Len(requests)
                         /\ result.FinalAnswer = TrimSpace(response.Content)

\* JSON mode: the second step answered " Done.\n" after a step with a tool
\* call, and the run returned "Done."
C7_Witness ==
    /\ pc = "returned"
    /\ cfg.JSON
    /\ cfg.MaxSteps = 2
    /\ Count("create") = 2
    /\ response.Content = <<" ", "D", "o", "n", "e", ".", "\n">>
    /\ result.FinalAnswer = <<"D", "o", "n", "e", ".">>
    /\ result.Status = "success"
    /\ Len(executed) >= 1

\* C8: steps is the number of step Create requests issued (planning and
\* streaming requests and tool calls do not count), and the StepsUsed of a
\* returned result is that number and lies in 0..MaxSteps.
C8_StepsCountRoundTrips ==
    /\ steps = Count("create")
    /\ pc = "returned" =>
          /\ result.StepsUsed = Count("create")
          /\ 0 <= result.StepsUsed
          /\ result.StepsUsed <= cfg.MaxSteps

\* a run with planning whose second step request failed after a step with two
\* tool calls: three Create calls of the client, StepsUsed = 2
C8_Witness ==
    /\ pc = "returned"
    /\ ~cfg.NoPlan
    /\ result.Status = "failure"
    /\ result.StepsUsed = 2
    /\ Len(requests) = 3
    /\ Len(response.ToolCalls) = 2

\* C9: Stream is called at most once per run and never in JSON mode, never
\* with the planning request and never with the messages of a request that
\* was answered with tool calls; it follows either a step response without
\* tool calls, with that request's messages, or step exhaustion.
C9_StreamOnlyForFinalAnswer ==
    /\ Count("stream") <= 1
    /\ cfg.JSON => Count("stream") = 0
    /\ \A i \in 1..Len(requests) :
          requests[i].kind = "stream" =>
             /\ requests[i].messages # PlanMessages
             /\ \A j \in 1..Len(requests) :
                   requests[j].outcome = "tool_calls" =>
                      requests[j].messages # requests[i].messages
             /\ \/ /\ i > 1
                   /\ requests[i - 1].kind = "create"
                   /\ requests[i - 1].outcome = "content"
                   /\ requests[i - 1].messages = requests[i].messages
                \/ /\ steps = cfg.MaxSteps
                   /\ AlwaysToolCalls
                   /\ requests[i].messages[Len(requests[i].messages)]
                        = DeveloperMessage("warning")

\* interactive mode: the terminal step made two model calls with the same
\* messages, a Create and then the Stream whose text became the answer
C9_Witness ==
    /\ pc = "returned"
    /\ ~cfg.JSON
    /\ result.Status = "success"
    /\ Len(requests) >= 2
    /\ requests[Len(requests)].kind = "stream"
    /\ requests[Len(requests) - 1].kind = "create"
    /\ requests[Len(requests) - 1].messages = requests[Len(requests)].messages
    /\ result.FinalAnswer = <<"o", "k">>

\* C10 (as claimed): a run whose context was cancelled at any point before it
\* returned ends with status failure.
C10_CancelEndsInFailure ==
    (pc = "returned" /\ cancelled) => result.Status = "failure"

\* C11: with planning enabled, JSON mode, a budget of at least two steps and
\* the mock client, a run that has returned returned a nil error, status
\* success, a non-empty final answer, exactly one recorded tool call and
\* StepsUsed = 2
C11_MockRunSucceeds ==
    (pc = "returned" /\ ~cfg.NoPlan /\ cfg.JSON /\ cfg.MaxSteps >= 2)
        => /\ retErr = "nil"
           /\ result.Status = "success"
           /\ result.FinalAnswer # <<>>
           /\ Len(result.ToolCalls) = 1
           /\ result.StepsUsed = 2

\* such a run has returned, after the plan, the grep call and the answer
C11_Witness ==
    /\ pc = "returned" /\ ~cfg.NoPlan /\ cfg.JSON /\ cfg.MaxSteps >= 2
    /\ Len(requests) = 3
    /\ requests[2].outcome = "tool_calls"
    /\ result.FinalAnswer = MockAnswerContent
    /\ result.ToolCalls[1].ToolName = "grep"


(***************************************************************************)
(* Properties of the shell tool.                                           *)
(***************************************************************************)
\* the tokens of the command of the call
Tokens == splitCommand(shArgs.Command).args

\* the command name of the call, in lower case
Name == IF Tokens = <<>> THEN <<>> ELSE ToLower(Tokens[1])

\* Execute got as far as cmd.Run
Ran == shCmd.built

\* a child process was started
Launched == shProc.state # "none"

\* Execute returned an error without getting as far as cmd.Run
Rejected == shRet.returned /\ shRet.err # <<>> /\ ~Ran /\ ~Launched

\* the entry's tokens are the first tokens of the command, letter case aside
IsPrefixOf(entry, tokens) ==
    /\ Len(entry) <= Len(tokens)
    /\ \A i \in 1..Len(entry) : ToLower(entry[i]) = ToLower(tokens[i])

\* C12: with the unsafe override disabled, Execute gets as far as cmd.Run
\* only if the tokens of some allowlist entry are an ordered prefix of the
\* command's tokens, letter case aside; entry "git status" permits
\* "git status -sb" and rejects "git commit -m x"; with an empty allowlist
\* every command is rejected
C12_AllowlistPrefix ==
    ~shMeta.UnsafeShell =>
        /\ Ran => \E e \in 1..Len(shTool.allowlist) :
                      IsPrefixOf(shTool.allowlist[e], Tokens)
        /\ (shTool.allowlist = <<>> /\ shPc # "Execute") => Rejected
        /\ (/\ shTool.allowlist = << <<<<"g", "i", "t">>, <<"s", "t", "a", "t", "u", "s">>>> >>
            /\ shPc # "Execute"
            /\ TrimSpace(shArgs.Cwd) = <<>>)
              => /\ shArgs.Command = <<"g", "i", "t", " ", "s", "t", "a", "t", "u", "s", " ", "-", "s", "b">> => Ran
                 /\ shArgs.Command = <<"g", "i", "t", " ", "c", "o", "m", "m", "i", "t", " ", "-", "m", " ", "x">> => Rejected

\* entry "git status" has let "git status -sb" start a child
C12_Witness ==
    /\ ~shMeta.UnsafeShell
    /\ shTool.allowlist = << <<<<"g", "i", "t">>, <<"s", "t", "a", "t", "u", "s">>>> >>
    /\ shArgs.Command = <<"g", "i", "t", " ", "s", "t", "a", "t", "u", "s", " ", "-", "s", "b">>
    /\ Launched

\* C13: with the unsafe override disabled, a command whose raw string matches
\* a destructive pattern is rejected with an error and cmd.Run is not
\* reached, even when the allowlist permits it; with the override enabled no
\* command is rejected as destructive
C13_DestructiveBlocked ==
    /\ (/\ ~shMeta.UnsafeShell
        /\ \/ destructivePatterns(shArgs.Command)
           \/ shArgs.Command = <<"r", "m", " ", "-", "r", "f", " ", "/">>)
          => /\ ~Ran /\ ~Launched
             /\ shPc # "Execute" => Rejected
    /\ shMeta.UnsafeShell
          => shRet.err # <<"b", "l", "o", "c", "k", "e", "d", " ", "p", "o", "t", "e", "n", "t", "i", "a", "l", "l", "y", " ", "d", "e", "s", "t", "r", "u", "c", "t", "i", "v", "e", " ", "c", "o", "m", "m", "a", "n", "d">>

\* "rm -rf /" with "rm" on the allowlist was rejected as destructive
C13_Witness ==
    /\ ~shMeta.UnsafeShell
    /\ shArgs.Command = <<"r", "m", " ", "-", "r", "f", " ", "/">>
    /\ \E e \in 1..Len(shTool.allowlist) : IsPrefixOf(shTool.allowlist[e], Tokens)
    /\ Rejected
    /\ shRet.err = <<"b", "l", "o", "c", "k", "e", "d", " ", "p", "o", "t", "e", "n", "t", "i", "a", "l", "l", "y", " ", "d", "e", "s", "t", "r", "u", "c", "t", "i", "v", "e", " ", "c", "o", "m", "m", "a", "n", "d">>

\* the names of the network-tool set
NetworkNames == { <<"c", "u", "r", "l">>, <<"w", "g", "e", "t">>, <<"s", "s", "h">>, <<"s", "c", "p">>, <<"n", "c">>, <<"n", "e", "t", "c", "a", "t">> }

\* C14: with the unsafe override disabled, a command whose name is a network
\* tool is rejected and cmd.Run is not reached, also when an allowlist entry
\* matches it
C14_NetworkBlocked ==
    (~shMeta.UnsafeShell /\ Name \in NetworkNames)
        => /\ ~Ran /\ ~Launched
           /\ shPc # "Execute" => Rejected

\* "curl x" with "curl" on the allowlist was rejected as a network command
C14_Witness ==
    /\ ~shMeta.UnsafeShell
    /\ shArgs.Command = <<"c", "u", "r", "l", " ", "x">>
    /\ \E e \in 1..Len(shTool.allowlist) : IsPrefixOf(shTool.allowlist[e], Tokens)
    /\ Rejected
    /\ shRet.err = <<"n", "e", "t", "w", "o", "r", "k", " ", "c", "o", "m", "m", "a", "n", "d", "s", " ", "a", "r", "e", " ", "b", "l", "o", "c", "k", "e", "d", " ", "b", "y", " ", "d", "e", "f", "a", "u", "l", "t", ":", " ", "c", "u", "r", "l">>

\* the names of the interactive-tool set
InteractiveNames ==
    { <<"v", "i", "m">>, <<"v", "i">>, <<"n", "a", "n", "o">>, <<"l", "e", "s", "s">>, <<"m", "o", "r", "e">>, <<"m", "a", "n">>, <<"t", "o", "p">>, <<"h", "t", "o", "p">>,
      <<"s", "s", "h">>, <<"s", "f", "t", "p">> }

\* C15: a command whose name, letter case aside, is an interactive tool is
\* rejected and cmd.Run is not reached, whatever the unsafe override and the
\* allowlist are
C15_InteractiveBlocked ==
    Name \in InteractiveNames
        => /\ ~Ran /\ ~Launched
           /\ shPc # "Execute" => Rejected

\* "VI a" was rejected with the unsafe override enabled
C15_Witness ==
    /\ shMeta.UnsafeShell
    /\ shArgs.Command = <<"V", "I", " ", "a">>
    /\ Rejected
    /\ shRet.err = <<"i", "n", "t", "e", "r", "a", "c", "t", "i", "v", "e", " ", "c", "o", "m", "m", "a", "n", "d", "s", " ", "a", "r", "e", " ", "n", "o", "t", " ", "a", "l", "l", "o", "w", "e", "d", ":", " ", "V", "I">>

\* C16: the environment of a child does not depend on the environment of the
\* tool's process: in two runs of the same command under different
\* environments the children have the same environment
C16_ChildEnvironmentFixed ==
    Launched => shProc.environ[1] = shProc.environ[2]

\* the directory is the root or lexically inside it
Inside(dir, root) ==
    /\ Len(Elems(root)) <= Len(Elems(dir))
    /\ SubSeq(Elems(dir), 1, Len(Elems(root))) = Elems(root)

\* the directory args.Cwd names, relative ones taken from the root
Named(cwd, root) == IF IsAbs(cwd) THEN cwd ELSE root \o <<"/">> \o cwd

\* the call passes every check of the command itself
CommandAccepted == Validate(shTool, [shArgs EXCEPT !.Cwd = <<>>], shMeta) = <<>>

\* C17: the directory of cmd is the repo root or lexically inside it; a
\* non-blank cwd, relative or absolute, that leads out of the repo root is
\* rejected, cmd.Run is not reached, and the error of a call whose command
\* passes its own checks is "cwd must stay within repo root", with the
\* unsafe override enabled as well
C17_CwdInsideRepoRoot ==
    /\ Ran => Inside(shCmd.Dir, shMeta.RepoRoot)
    /\ (/\ TrimSpace(shArgs.Cwd) # <<>>
        /\ ~Inside(Named(shArgs.Cwd, shMeta.RepoRoot), shMeta.RepoRoot))
          => /\ ~Ran /\ ~Launched
             /\ shPc # "Execute" => Rejected
             /\ (shPc # "Execute" /\ CommandAccepted)
                   => shRet.err = <<"c", "w", "d", " ", "m", "u", "s", "t", " ", "s", "t", "a", "y", " ", "w", "i", "t", "h", "i", "n", " ", "r", "e", "p", "o", " ", "r", "o", "o", "t">>

\* an absolute cwd that leads out of the root through ".." was rejected with
\* the unsafe override enabled
C17_Witness ==
    /\ shMeta.UnsafeShell
    /\ shArgs.Cwd = <<"/", "r", "e", "p", "o", "/", ".", ".", "/", "e", "t", "c">>
    /\ CommandAccepted
    /\ Rejected
    /\ shRet.err = <<"c", "w", "d", " ", "m", "u", "s", "t", " ", "s", "t", "a", "y", " ", "w", "i", "t", "h", "i", "n", " ", "r", "e", "p", "o", " ", "r", "o", "o", "t">>

\* the child exited on its own with a nonzero status
ExitedNonzero == shProc.state = "exited" /\ shProc.code # 0

\* the Result of Execute carries the exit code and both streams, redacted
\* and cut to meta.MaxBytes
CarriesOutput ==
    /\ shRet.err = <<>>
    /\ shRet.Payload.ExitCode = shProc.code
    /\ shRet.Payload.Stdout
          = TruncateBytes(RedactSecrets(shProc.stdout), shMeta.MaxBytes).text
    /\ shRet.Payload.Stderr
          = TruncateBytes(RedactSecrets(shProc.stderr), shMeta.MaxBytes).text

\* C18 as stated: a child that exits with a nonzero code gives a Result with
\* that code, stdout and stderr; once cmd.Run is reached Execute returns an
\* error only if no child was started
C18_ErrorOnlyIfNotStarted ==
    /\ (shRet.returned /\ ExitedNonzero) => CarriesOutput
    /\ (shRet.returned /\ Ran /\ shRet.err # <<>>) => ~Launched

\* C18, amended: a child that exits with a nonzero code gives a Result with
\* that code, stdout and stderr; once cmd.Run is reached Execute returns an
\* error only if no child was started, or if the context was done as the
\* child exited with status 0, when the error is the context's
C18_NonzeroExitIsResult ==
    /\ (shRet.returned /\ ExitedNonzero) => CarriesOutput
    /\ (shRet.returned /\ Ran /\ shRet.err # <<>>)
          => \/ ~Launched
             \/ /\ shProc.deadline /\ shProc.state = "exited" /\ shProc.code = 0
                /\ shRet.err = <<"c", "o", "n", "t", "e", "x", "t", " ", "d", "e", "a", "d", "l", "i", "n", "e", " ", "e", "x", "c", "e", "e", "d", "e", "d">>

\* a child that wrote to stdout exited with status 2
C18_Witness ==
    /\ shRet.returned
    /\ ExitedNonzero
    /\ shProc.stdout = <<"o", "k", "\n">>
    /\ shRet.err = <<>>
    /\ shRet.Payload.ExitCode = 2
    /\ shRet.Payload.Stdout = <<"o", "k", "\n">>

\* C19: a call whose child was still running when the context was done (the
\* tool timeout or the deadline of the run) is an execution error: Execute
\* returned an error and the agent's record has status error and the
\* payload {error, duration_ms}
C19_TimeoutIsError ==
    (shPc = "recorded" /\ shProc.state = "killed")
        => /\ shRet.err # <<>>
           /\ shRecord.Status = "error"
           /\ shRecord.Output = {"error", "duration_ms"}

\* the text is the beginning of the other text
BeginsText(full, text) ==
    /\ Len(text) <= Len(full)
    /\ SubSeq(full, 1, Len(text)) = text

\* C20: the content of the tool-result message of a shell call has passed
\* through secret redaction: the error text of an error payload is the
\* redaction of the tool's error text, and stdout and stderr of a result
\* payload are the redaction of what the child wrote, cut at the byte limit
C20_ToolResultRedacted ==
    shPc = "recorded"
        => IF shRet.err # <<>>
           THEN shRecord.content.error = RedactSecrets(shRet.err)
           ELSE /\ BeginsText(RedactSecrets(shProc.stdout),
                              shRecord.content.stdout)
                /\ BeginsText(RedactSecrets(shProc.stderr),
                              shRecord.content.stderr)


(***************************************************************************)
(* Properties of the root command.                                         *)
(***************************************************************************)
\* C21: with an empty command allowlist the shell tool is not in the
\* registry of the run, whatever the other flags are
C21_ShellNeedsAllowlist ==
    (mainPc = "done" /\ mainCfg.ShellAllowlist = <<>>)
        => "shell" \notin DOMAIN registry


(***************************************************************************)
(* Properties of the library functions.                                    *)
(***************************************************************************)
\* the first n elements of a list
FirstN(s, n) == SubSeq(s, 1, IF n < Len(s) THEN n ELSE Len(s))

RECURSIVE TotalLen(_)
TotalLen(lines) ==
    IF lines = <<>> THEN 0 ELSE Len(Head(lines)) + TotalLen(Tail(lines))

\* the bytes of the kept lines plus one separator between consecutive ones
KeptBytes(lines) ==
    TotalLen(lines) + (IF Len(lines) > 1 THEN Len(lines) - 1 ELSE 0)

\* C23: TruncateLinesAndBytes with both limits positive returns at most
\* maxLines lines and a byteCount <= maxBytes; byteCount counts the kept
\* lines plus one separator between consecutive kept lines; with both limits
\* zero or negative the input comes back unchanged with truncated false; a
\* limit of zero disables only that limit: with maxLines zero the byte limit
\* alone decides where the list is cut, with maxBytes zero the line limit
C23_TruncateLimits ==
    callPc = "returned"
        => LET a == callArgs
               r == callRet
           IN  /\ r.byteCount = KeptBytes(r.out)
               /\ r.out = FirstN(a.lines, Len(r.out))
               /\ (a.maxLines > 0 /\ a.maxBytes > 0)
                     => Len(r.out) <= a.maxLines /\ r.byteCount <= a.maxBytes
               /\ (a.maxLines <= 0 /\ a.maxBytes <= 0)
                     => r.out = a.lines /\ ~r.truncated
               /\ (a.maxLines = 0 /\ a.maxBytes > 0)
                     => /\ r.byteCount <= a.maxBytes
                        /\ r.out # a.lines
                              => KeptBytes(FirstN(a.lines, Len(r.out) + 1))
                                    > a.maxBytes
               /\ (a.maxBytes = 0 /\ a.maxLines > 0)
                     => r.out = FirstN(a.lines, a.maxLines)

\* three lines of 1, 3 and 1 bytes under limits of 3 lines and 6 bytes: two
\* lines and their separator are kept, 5 bytes, the third would make 7
C23_Witness ==
    /\ callPc = "returned"
    /\ callArgs.lines = <<<<"a">>, <<"b", "c", "d">>, <<"a">>>>
    /\ callArgs.maxLines = 3
    /\ callArgs.maxBytes = 6
    /\ callRet = [out |-> <<<<"a">>, <<"b", "c", "d">>>>, truncated |-> TRUE, byteCount |-> 5]


\* whitespace for the tokenizer: space, tab, newline
IsBlank(c) == c \in {" ", "\t", "\n"}

\* the positions where a maximal run of non-whitespace characters starts
RunStarts(s) ==
    {i \in 1..Len(s) : ~IsBlank(s[i]) /\ (i = 1 \/ IsBlank(s[i - 1]))}

\* the last position of the run that starts at i
RunEnd(s, i) ==
    CHOOSE j \in i..Len(s) :
        /\ \A k \in i..j : ~IsBlank(s[k])
        /\ j = Len(s) \/ IsBlank(s[j + 1])

\* the maximal runs of non-whitespace characters, in order
Runs(s) ==
    LET starts == RunStarts(s)
    IN  [n \in 1..Cardinality(starts) |->
            LET i == CHOOSE i \in starts :
                         Cardinality({j \in starts : j < i}) = n - 1
            IN  SubSeq(s, i, RunEnd(s, i))]

\* where the tokenizer stands after the first i characters: outside quotes,
\* inside single or double quotes, or right after an escaping backslash
RECURSIVE ModeAfter(_, _)
ModeAfter(s, i) ==
    IF i = 0 THEN "plain"
    ELSE LET before == ModeAfter(s, i - 1)
             c == s[i]
         IN  CASE before = "single" -> IF c = "'" THEN "plain" ELSE "single"
               [] before = "escaped" -> "plain"
               [] before = "escapedInDouble" -> "double"
               [] before = "double" ->
                     IF c = "\\" THEN "escapedInDouble"
                     ELSE IF c = "\"" THEN "plain" ELSE "double"
               [] OTHER ->
                     IF c = "\\" THEN "escaped"
                     ELSE IF c = "'" THEN "single"
                     ELSE IF c = "\"" THEN "double" ELSE "plain"

\* the characters strictly between the first and the last one
Inner(s) == SubSeq(s, 2, Len(s) - 1)

Has(s, c) == \E i \in 1..Len(s) : s[i] = c

\* C24: splitCommand on a text without quotes or backslashes returns its
\* maximal runs of non-whitespace characters in order; a quoted section
\* keeps its whitespace inside one word (echo "a b" gives [echo, a b]);
\* inside single quotes a backslash is literal; and it returns a parse
\* error, with no tokens, exactly when the text ends inside an open single
\* or double quote or right after an escaping backslash
C24_SplitCommand ==
    callPc = "returned"
        => LET s == callArgs
               r == callRet
           IN  /\ (~Has(s, "'") /\ ~Has(s, "\"") /\ ~Has(s, "\\"))
                     => ~r.err /\ r.args = Runs(s)
               /\ (/\ Len(s) > 2
                   /\ s[1] = "\"" /\ s[Len(s)] = "\""
                   /\ ~Has(Inner(s), "\"") /\ ~Has(Inner(s), "\\"))
                     => ~r.err /\ r.args = <<Inner(s)>>
               /\ (/\ Len(s) > 2
                   /\ s[1] = "'" /\ s[Len(s)] = "'"
                   /\ ~Has(Inner(s), "'"))
                     => ~r.err /\ r.args = <<Inner(s)>>
               /\ s = <<"e", "c", "h", "o", " ", "\"", "a", " ", "b", "\"">> => r.args = <<<<"e", "c", "h", "o">>, <<"a", " ", "b">>>>
               /\ s = <<"e", "c", "h", "o", " ", "'", "a", "\\", " ", "b", "'", " ", "c">>
                     => r.args = <<<<"e", "c", "h", "o">>, <<"a", "\\", " ", "b">>, <<"c">>>>
               /\ r.err <=> ModeAfter(s, Len(s)) # "plain"
               /\ r.err => r.args = <<>>

\* echo "a b" was split into two words, the second with its space
C24_Witness ==
    /\ callPc = "returned"
    /\ callArgs = <<"e", "c", "h", "o", " ", "\"", "a", " ", "b", "\"">>
    /\ callRet = [err |-> FALSE, args |-> <<<<"e", "c", "h", "o">>, <<"a", " ", "b">>>>]


\* C25: RedactSecrets is idempotent: redacting a redacted text changes
\* nothing, also where key=value assignments, private-key blocks, JWT-shaped
\* triplets and sk- tokens are adjacent or inside one another
C25_RedactIdempotent ==
    callPc = "returned" => callRet.twice = callRet.once

\* an assignment whose value is an sk- token, followed by a JWT: both were
\* redacted, and redacting again left the text as it was
C25_Witness ==
    /\ callPc = "returned"
    /\ callArgs = <<"a", "p", "i", "_", "k", "e", "y", ":", " ", "s", "k", "-", "a", "1", "b", "2", "c", "3", "d", "4", "e", "5", "f", "6", "g", "7", "h", "8", "i", "9", "j", "0", " ", "e", "y", "J", "a", ".", "b", ".", "c">>
    /\ callRet.once = <<"a", "p", "i", "_", "k", "e", "y", "=", "[", "R", "E", "D", "A", "C", "T", "E", "D", "]", " ", "[", "R", "E", "D", "A", "C", "T", "E", "D", " ", "J", "W", "T", "]">>
    /\ callRet.twice = callRet.once


(***************************************************************************)
(* Properties of the renderer.                                             *)
(***************************************************************************)
\* C26: in interactive mode the answer text shown for a run that ends with
\* status "partial" carries the max-steps notice: what the renderer wrote
\* contains "max steps" whenever the returned final answer was given the
\* prefix
C26_PartialAnswerLabelled ==
    (rnPc = "returned" /\ rnRun.Status = "partial" /\ rnRun.noticed)
        => Contains(ToLower(written), MaxStepsPhrase)


(***************************************************************************)
(* Properties of planning and of the final answer.                         *)
(***************************************************************************)
\* the usable lines of a planning response: trimmed, leading '-' and '*'
\* stripped, trimmed again, the empty ones dropped
RECURSIVE NonEmpty(_)
NonEmpty(lines) ==
    IF lines = <<>> THEN <<>>
    ELSE IF Head(lines) = <<>> THEN NonEmpty(Tail(lines))
    ELSE <<Head(lines)>> \o NonEmpty(Tail(lines))

UsableLines(text) ==
    LET lines == Split(text)
    IN  NonEmpty([i \in 1..Len(lines) |->
                     TrimSpace(TrimLeft(TrimSpace(lines[i])))])

\* the plan the claim expects for a planning response
ExpectedPlan(text) ==
    IF Len(UsableLines(text)) < 3 THEN FallbackPlan
    ELSE FirstN(UsableLines(text), 8)

\* C27: with planning enabled, the plan of the run is exactly the fixed
\* 3-item fallback plan when the planning request failed or its response
\* has fewer than 3 usable lines, and otherwise the first at most 8 usable
\* lines; in every case it has between 3 and 8 items
C27_PlanOrFallback ==
    (~cfg.NoPlan /\ pc \notin {"Run", "generatePlan"})
        => /\ Len(plan) \in 3..8
           /\ IF requests[1].outcome = "error"
              THEN plan = FallbackPlan
              ELSE \E text \in PlanTexts : plan = ExpectedPlan(text)


\* C29, as stated: in interactive mode, after a step response without tool
\* calls, the final answer is the streamed text when that text is non-blank
\* and the stream did not fail, and the non-streaming content otherwise; the
\* run ends with status "success" and a nil error
C29_StreamedTextIsAnswer ==
    (rnPc = "returned" /\ rnRun.branch = "final")
        => /\ rnRun.FinalAnswer =
                 IF ~rnRun.streamFailed /\ TrimSpace(rnRun.builder) # <<>>
                 THEN rnRun.builder
                 ELSE rnRun.content
           /\ rnRun.Status = "success"
           /\ rnRun.err = "nil"

\* C29, amended: the final answer is the streamed text, or the non-streaming
\* content when the stream failed or the streamed text is blank, in both
\* cases with the white space around it trimmed; the run ends with status
\* "success" and a nil error
C29_TrimmedStreamedTextIsAnswer ==
    (rnPc = "returned" /\ rnRun.branch = "final")
        => /\ rnRun.FinalAnswer =
                 IF ~rnRun.streamFailed /\ TrimSpace(rnRun.builder) # <<>>
                 THEN TrimSpace(rnRun.builder)
                 ELSE TrimSpace(rnRun.content)
           /\ rnRun.Status = "success"
           /\ rnRun.err = "nil"

\* the stream failed after the delta "ok": the answer is the content "Done."
C29_Witness ==
    /\ rnPc = "returned"
    /\ rnRun.branch = "final"
    /\ rnRun.streamFailed
    /\ rnRun.builder = <<"o", "k">>
    /\ rnRun.content = <<" ", "D", "o", "n", "e", ".", "\n">>
    /\ rnRun.FinalAnswer = <<"D", "o", "n", "e", ".">>
    /\ rnRun.Status = "success"


(***************************************************************************)
(* The order of the checks of the shell tool.                              *)
(***************************************************************************)
\* the stages of the validation, in the order claimed, and whether the call
\* fails each of them taken alone
StageFails(k) ==
    CASE k = 1 -> \/ TrimSpace(shArgs.Command) = <<>>
                  \/ splitCommand(shArgs.Command).err
                  \/ Tokens = <<>>
      [] k = 2 -> Name \in InteractiveNames
      [] k = 3 -> ~shMeta.UnsafeShell /\ shTool.allowlist = <<>>
      [] k = 4 -> /\ ~shMeta.UnsafeShell
                  /\ ~\E e \in 1..Len(shTool.allowlist) :
                         IsPrefixOf(shTool.allowlist[e], Tokens)
      [] k = 5 -> ~shMeta.UnsafeShell /\ Name \in NetworkNames
      [] k = 6 -> ~shMeta.UnsafeShell /\ destructivePatterns(shArgs.Command)
      [] k = 7 -> /\ TrimSpace(shArgs.Cwd) # <<>>
                  /\ resolveCwd(shMeta.RepoRoot, shArgs.Cwd).err # <<>>

\* how the error of each stage begins
StageErrors(k) ==
    CASE k = 1 -> {<<"c", "o", "m", "m", "a", "n", "d", " ", "i", "s", " ", "r", "e", "q", "u", "i", "r", "e", "d">>, <<"u", "n", "t", "e", "r", "m", "i", "n", "a", "t", "e", "d", " ", "q", "u", "o", "t", "e", " ", "o", "r", " ", "e", "s", "c", "a", "p", "e">>}
      [] k = 2 -> {<<"i", "n", "t", "e", "r", "a", "c", "t", "i", "v", "e", " ", "c", "o", "m", "m", "a", "n", "d", "s", " ", "a", "r", "e", " ", "n", "o", "t", " ", "a", "l", "l", "o", "w", "e", "d", ":", " ">>}
      [] k = 3 -> {<<"s", "h", "e", "l", "l", " ", "a", "l", "l", "o", "w", "l", "i", "s", "t", " ", "i", "s", " ", "e", "m", "p", "t", "y">>}
      [] k = 4 -> {<<"c", "o", "m", "m", "a", "n", "d", " ", "n", "o", "t", " ", "a", "l", "l", "o", "w", "l", "i", "s", "t", "e", "d", ":", " ">>}
      [] k = 5 -> {<<"n", "e", "t", "w", "o", "r", "k", " ", "c", "o", "m", "m", "a", "n", "d", "s", " ", "a", "r", "e", " ", "b", "l", "o", "c", "k", "e", "d", " ", "b", "y", " ", "d", "e", "f", "a", "u", "l", "t", ":", " ">>}
      [] k = 6 -> {<<"b", "l", "o", "c", "k", "e", "d", " ", "p", "o", "t", "e", "n", "t", "i", "a", "l", "l", "y", " ", "d", "e", "s", "t", "r", "u", "c", "t", "i", "v", "e", " ", "c", "o", "m", "m", "a", "n", "d">>}
      [] k = 7 -> {<<"c", "w", "d", " ", "m", "u", "s", "t", " ", "s", "t", "a", "y", " ", "w", "i", "t", "h", "i", "n", " ", "r", "e", "p", "o", " ", "r", "o", "o", "t">>}

FailedStages == {k \in 1..7 : StageFails(k)}

\* C30: the shell tool applies its checks in a fixed order and reports the
\* error of the first stage that fails: blank command or parse error, then
\* interactive command, then with the unsafe override disabled empty
\* allowlist, not allowlisted, network tool, destructive pattern, then cwd
\* escape; a process is launched only after every applicable stage passed
C30_ChecksInOrder ==
    /\ (Ran \/ Launched) => FailedStages = {}
    /\ (shPc # "Execute" /\ FailedStages # {})
          => LET first == CHOOSE k \in FailedStages :
                              \A j \in FailedStages : k <= j
             IN  /\ shRet.returned
                 /\ ~Ran /\ ~Launched
                 /\ \E text \in StageErrors(first) : HasPrefix(shRet.err, text)
    /\ (shPc # "Execute" /\ FailedStages = {}) => Ran

\* "curl x" under the allowlist [git status], unsafe override disabled, with
\* a cwd that leaves the repo root: three stages fail, the error is that of
\* the allowlist match
C30_Witness ==
    /\ shRet.returned
    /\ shArgs.Command = <<"c", "u", "r", "l", " ", "x">>
    /\ shArgs.Cwd = <<"/", "e", "t", "c">>
    /\ ~shMeta.UnsafeShell
    /\ FailedStages = {4, 5, 7}
    /\ shRet.err = <<"c", "o", "m", "m", "a", "n", "d", " ", "n", "o", "t", " ", "a", "l", "l", "o", "w", "l", "i", "s", "t", "e", "d", ":", " ", "c", "u", "r", "l">>
    /\ ~Launched


\* C22: whenever the grep tool returns fewer match lines than the search
\* has matches, the truncated flag of its result is true
C22_FewerMatchesTruncated ==
    (/\ grRet.returned
     /\ grRet.err = <<>>
     /\ Len(grRet.Payload.Matches) < Len(grSearch.found))
        => grRet.Payload.Truncated

\* C28: the grep tool never searches a directory outside the repo root, in
\* ripgrep mode or with the in-process scan
C28_SearchInsideRepoRoot ==
    \A dir \in grSearch.dirs : Inside(dir, grMeta.RepoRoot)


\* the first n elements of a text, all of it when it is shorter
CutTo(text, n) == SubSeq(text, 1, IF Len(text) < n THEN Len(text) ELSE n)

\* C31: in a shell result stdout and stderr are each redacted and then cut
\* on their own to at most MaxBytes bytes when MaxBytes > 0, and truncated is
\* true exactly when one of the two was cut; with MaxBytes <= 0 neither is
\* cut and truncated is false
C31_StreamsCutIndependently ==
    callPc = "returned" =>
        LET out == RedactSecrets(callArgs.stdout)
            err == RedactSecrets(callArgs.stderr)
            max == callArgs.MaxBytes
        IN  IF max > 0
            THEN /\ callRet.Stdout = CutTo(out, max)
                 /\ callRet.Stderr = CutTo(err, max)
                 /\ callRet.Truncated <=> (Len(out) > max \/ Len(err) > max)
            ELSE /\ callRet.Stdout = out
                 /\ callRet.Stderr = err
                 /\ ~callRet.Truncated

\* stderr alone is cut, after its redaction, and the two streams together
\* are longer than MaxBytes
C31_Witness ==
    /\ callPc = "returned"
    /\ callArgs.MaxBytes > 0
    /\ callRet.Truncated
    /\ callRet.Stdout = callArgs.stdout
    /\ callRet.Stdout # <<>>
    /\ Len(callRet.Stderr) = callArgs.MaxBytes
    /\ callRet.Stderr # CutTo(callArgs.stderr, callArgs.MaxBytes)
    /\ Len(callRet.Stdout) + Len(callRet.Stderr) > callArgs.MaxBytes


\* C32: Run terminates for every step budget MaxSteps >= 0 when every call
\* returns: at most one planning request, at most MaxSteps step requests and
\* at most one streaming request are issued, and Run returns in one of the
\* states success, partial, failure
C32_RunTerminates ==
    /\ [](/\ Count("plan") <= 1
          /\ Count("create") <= cfg.MaxSteps
          /\ Count("stream") <= 1)
    /\ <>[](/\ pc = "returned"
            /\ result.Status \in {"success", "partial", "failure"})

\* a run with a plan that used its whole budget on tool calls, streamed its
\* last answer and returned
C32_Witness ==
    /\ pc = "returned"
    /\ cfg.MaxSteps = MaxStepsBound
    /\ Count("plan") = 1
    /\ Count("create") = cfg.MaxSteps
    /\ Count("stream") = 1
    /\ Len(executed) > 0


\* C33: Run returns a nil error if and only if the status is "success";
\* "partial" comes with the "max steps reached" error and "failure" with the
\* transport error; until Run returns the status is "failure" as initialised
C33_ErrorMatchesStatus ==
    IF pc = "returned"
    THEN /\ retErr = "nil" <=> result.Status = "success"
         /\ result.Status = "partial" => retErr = "max steps reached"
         /\ result.Status = "failure" => retErr = "transport"
         /\ result.Status \in {"success", "partial", "failure"}
    ELSE result.Status = "failure" /\ retErr = "nil"

\* a run that returned partial after tool calls had been executed
C33_Witness ==
    /\ pc = "returned"
    /\ result.Status = "partial"
    /\ retErr = "max steps reached"
    /\ Len(executed) > 0


\* how often an event type occurs in the event log of the run
Emitted(type) ==
    Cardinality({i \in 1..Len(result.Events) : result.Events[i] = type})

\* C34: RunStarted is the first event of every run; a run ending in success
\* or partial emits FinalAnswerReady exactly once, immediately followed by
\* RunFinished as the last event, and no RunError; a run ending in failure
\* emits RunError last and neither FinalAnswerReady nor RunFinished
C34_EventOrder ==
    LET ev == result.Events
        n == Len(ev)
    IN  /\ n > 0 => ev[1] = "RunStarted"
        /\ pc # "Run" => n > 0
        /\ Emitted("RunStarted") <= 1
        /\ (pc = "returned" /\ result.Status \in {"success", "partial"}) =>
              /\ Emitted("FinalAnswerReady") = 1
              /\ n >= 3
              /\ ev[n - 1] = "FinalAnswerReady"
              /\ ev[n] = "RunFinished"
              /\ Emitted("RunFinished") = 1
              /\ Emitted("RunError") = 0
        /\ (pc = "returned" /\ result.Status = "failure") =>
              /\ ev[n] = "RunError"
              /\ Emitted("FinalAnswerReady") = 0
              /\ Emitted("RunFinished") = 0

\* a successful run whose log holds a plan, tool events and streamed deltas
\* between RunStarted and FinalAnswerReady
C34_Witness ==
    /\ pc = "returned"
    /\ result.Status = "success"
    /\ Emitted("PlanGenerated") = 1
    /\ Emitted("ModelStreamingDelta") > 0
    /\ Len(executed) > 0
    /\ Len(result.Events) > 5


\* the names of the tool calls the model requested, in request order: the
\* calls of the assistant messages of the conversation
RECURSIVE RequestedCalls(_)
RequestedCalls(msgs) ==
    IF msgs = <<>> THEN <<>>
    ELSE (IF Head(msgs).role = "assistant"
          THEN [i \in 1..Len(Head(msgs).tool_calls) |->
                   Head(msgs).tool_calls[i].Name]
          ELSE <<>>) \o RequestedCalls(Tail(msgs))

\* C35: the tool-call history of the returned RunResult holds exactly one
\* record, in request order, for every tool call the model requested during
\* the run, calls that name an unregistered tool included
C35_HistoryComplete ==
    pc = "returned" =>
        [i \in 1..Len(result.ToolCalls) |-> result.ToolCalls[i].ToolName]
            = RequestedCalls(messages)


\* the command names the destructive patterns spell out
DestructiveNames == {<<"r", "m">>, <<"m", "k", "f", "s">>, <<"d", "d">>, <<"s", "h", "u", "t", "d", "o", "w", "n">>, <<"r", "e", "b", "o", "o", "t">>}

\* C36: with the unsafe override disabled no process is launched whose
\* command name, the first token of the tokenized command, is rm, mkfs, dd,
\* shutdown or reboot, whatever the allowlist and however the raw command is
\* quoted or escaped
C36_DestructiveNameNeverRuns ==
    (~shMeta.UnsafeShell /\ Launched) => shCmd.Path \notin DestructiveNames

\* the base name of a command name, in lower case
BaseName ==
    IF Name = <<>> THEN <<>>
    ELSE LET elems == SplitOn(Name, "/") IN elems[Len(elems)]

\* C37: a command whose first token is a path with an interactive base name
\* is rejected in every configuration, and one with a network base name is
\* rejected whenever the unsafe override is disabled
C37_PathQualifiedBlocked ==
    /\ BaseName \in InteractiveNames
          => /\ ~Ran /\ ~Launched
             /\ shPc # "Execute" => Rejected
    /\ (~shMeta.UnsafeShell /\ BaseName \in NetworkNames)
          => /\ ~Ran /\ ~Launched
             /\ shPc # "Execute" => Rejected


\* C38: the number of match lines in a grep result never exceeds the limit
\* the agent passes in meta.MaxResults, whatever max_results the call gives
C38_ResultLimit ==
    (grRet.returned /\ grRet.err = <<>> /\ grMeta.MaxResults > 0)
        => Len(grRet.Payload.Matches) <= grMeta.MaxResults


\* a is b or the beginning of b
IsPrefix(a, b) == Len(a) <= Len(b) /\ SubSeq(b, 1, Len(a)) = a

\* C39: the lines TruncateLinesAndBytes returns are a prefix of the input
\* lines in the same order, truncated is true if and only if an input line
\* was left out, and byteCount is the length of the returned lines joined
\* with a single newline
C39_TruncatePrefix ==
    callPc = "returned"
        => /\ IsPrefix(callRet.out, callArgs.lines)
           /\ callRet.truncated <=> Len(callRet.out) < Len(callArgs.lines)
           /\ callRet.byteCount = JoinedLen(callRet.out)

\* an empty line and a one-byte line are kept under a limit of two lines,
\* two bytes with the newline between them, and the third line is left out
C39_Witness ==
    /\ callPc = "returned"
    /\ callArgs.lines = <<<<>>, <<"a">>, <<"b", "c", "d">>>>
    /\ callArgs.maxLines = 2
    /\ callArgs.maxBytes <= 0
    /\ callRet = [out |-> <<<<>>, <<"a">>>>, truncated |-> TRUE, byteCount |-> 2]

=============================================================================
